---- MODULE Spec2Model ----
(***************************************************************************)
(* A model of the Studuino:bit mode of the Mu editor.                      *)
(*                                                                         *)
(*   Spec       the mode orchestrator (StuduinoBitMode): the UI handlers   *)
(*              toggle_repl, toggle_plotter, toggle_files, toggle_flash,   *)
(*              run, on_data_flood and the presence poll is_connecting,    *)
(*              together with the worker thread that add_fs starts.        *)
(*   SpecFM     one file manager (FileManager / StuduinoBitFileManager)    *)
(*              living on its worker thread and serving requests.          *)
(*   SpecReboot the reboot handshake (reboot, reboot_and_prompt) and       *)
(*              read_until against a serial device; SpecRebootFair adds    *)
(*              the scheduling under which the handshake makes progress.   *)
(*   SpecLocator the device locator (find_device, port_path).              *)
(*   SpecLink   open_serial_link / close_serial_link of StuduinoBitMode    *)
(*              and of ESP32PackagesWidget.                                *)
(*                                                                         *)
(* Python's None / False / True are the strings "None", "False", "True";   *)
(* an attribute that was never assigned is "unset".                        *)
(***************************************************************************)
EXTENDS Integers, Sequences, FiniteSets, TLC

VARIABLES
    \* ---- StuduinoBitMode (UI thread) ----
    repl,                 \* self.repl: "None" | "False" | "True"
    plotter,              \* self.plotter: "None" | "False" | "True"
    fs,                   \* self.fs: "None" | "pane"
    file_manager,         \* self.file_manager: "unset" | "obj" | "None"
    file_manager_thread,  \* self.file_manager_thread: "unset" | "obj" | "None"
    timer,                \* self.timer.isActive()
    buttons,              \* enabled state of the button bar slots
    serial,               \* self.serial: "unset" | "closed" | "open" | "None"
    pc,                   \* where the UI thread is: "idle" | "flash" | "run"
    op,                   \* the handler that ran last
    shown,                \* the notifications the last handler call produced
    lookups,              \* the find_device calls the last handler call made
    trace,                \* the steps the last toggle_flash / run call took
    escaped,              \* the exception that left the last handler call
    readUntilThreads,     \* the threads on which read_until has been called
    \* ---- the file manager and its worker thread ----
    fmKind,               \* class of the file manager object
    fmSerial,             \* file manager's self.serial: "unset" | "open" | "closed"
    fmQueue,              \* slot invocations queued on the worker's event loop
    fmRunning,            \* the jobs the worker is executing
    fmNext,               \* id of the next job
    fmLog,                \* per job: the request, its progress, what it emitted
    \* ---- the reboot handshake on a serial link ----
    rbEntry,              \* the method called: "reboot" | "reboot_and_prompt"
    rbPc,                 \* the step of the method that runs next
    rbStatus,             \* "running" | "returned" | "TimeoutError"
    written,              \* the serial.write calls so far, in order
    reads,                \* the tokens read_until has returned for, in order
    buff,                 \* read_until's buffer
    rx,                   \* bytes received and not yet read (readAll takes them)
    devOut,               \* bytes the device has sent that have not arrived yet
    ruReturn,             \* what the last completed read_until call returned
    rbDevice,             \* the device on the link: "any" | "scripted"
    \* ---- the device locator (find_device, port_path) ----
    valid_boards,         \* the board table: (vendor, product) pairs
    available_ports,      \* QSerialPortInfo.availablePorts(), in scan order
    os_name,              \* os.name: "posix" | "nt" | "java"
    fdResult,             \* outcome of the find_device call
    ppResult,             \* outcome of the port_path call
    \* ---- one object with open_serial_link / close_serial_link ----
    lkClass,              \* "StuduinoBitMode" | "ESP32PackagesWidget"
    lkSerial,             \* self.serial: "unset" | "None" | "closed" | "open"
    lkBaud,               \* baud rate set on the QSerialPort: "unset" | "115200"
    lkOp,                 \* the method called last
    lkIn,                 \* its argument and what the platform did
    lkLog,                \* what the last call did to the port, in order
    lkExc,                \* the exception the last call raised
    lkCalls,              \* the methods called so far
    \* ---- ESP32PackagesWidget.install ----
    inPc,                 \* "idle" | "done"
    inText,               \* the lines of the text area
    inReplies,            \* what send_cmd gives for the k-th command
    inEnv,                \* what the platform does when the port is opened
    inReport,             \* the entries of the 'UPIP Result' message
    inShown,              \* titles of the messages and message boxes shown
    inButtonConn,         \* button_conn enabled
    \* ---- PackageDialog ----
    pdPc,                 \* "new" | "setup"
    to_remove,            \* self.to_remove, a list of package names
    to_add,               \* self.to_add, a list of package names
    module_dir,           \* package name -> "none" | "dist-info" | "egg-info"
    pkg_dirs,             \* self.pkg_dirs, in insertion order
    process,              \* self.process: "None" | "running" | "exited"
    pdTimer,              \* a QTimer.singleShot(2, self.remove_package) is pending
    text_area,            \* what append_data has appended
    ok_enabled,           \* the OK button is enabled
    to_add_given,         \* the list to_add as it was handed to setup
    pip_starts,           \* the packages handed to process.start, in order
    pip_exits,            \* how many of those processes have finished
    \* ---- ESP32PackagesWidget: the Wi-Fi area ----
    wfChecked,            \* button_conn is checked
    wfLabel,              \* text of button_conn: "Connect" | "Disconnect"
    wfFields,             \* list_ssid and line_pwd are enabled
    wfScan,               \* button_scan is enabled
    wfInstall,            \* groupbox_install is enabled
    wfSsid,               \* list_ssid.currentText() is not empty
    wfPwd,                \* line_pwd.text() is not empty
    wfOp,                 \* the slot that ran last
    wfResult,             \* how it ended: "ok" | "open_error" | "io_error" | "init_error"
    \* ---- SBFirmwareFlasherWidget ----
    fwExec,               \* btnExec is enabled
    fwProcess,            \* self.process: unset, None or one of the processes
    fwCommands,           \* self.commands
    fwProcs,              \* each QProcess: "none" | "running" | "crashed" | "ended"
    fwUnread,             \* chunks each process has written that were not read
    fwEmitted,            \* chunks each process has written
    fwTimers,             \* pending single-shot timers of read_process
    fwLog,                \* log_text_area
    fwExc,                \* exception raised in a callback: "None" | "AttributeError"
    fwOp                  \* the callback that ran last

modeVars == <<repl, plotter, fs, file_manager, file_manager_thread, timer,
              buttons, serial, pc, op, shown, lookups, trace, escaped,
              readUntilThreads>>
fmVars == <<fmKind, fmSerial, fmQueue, fmRunning, fmNext, fmLog>>
rbVars == <<rbEntry, rbPc, rbStatus, written, reads, buff, rx, devOut,
            ruReturn, rbDevice>>
fdVars == <<valid_boards, available_ports, os_name, fdResult, ppResult>>
lkVars == <<lkClass, lkSerial, lkBaud, lkOp, lkIn, lkLog, lkExc, lkCalls>>
inVars == <<inPc, inText, inReplies, inEnv, inReport, inShown, inButtonConn>>
pdVars == <<pdPc, to_remove, to_add, module_dir, pkg_dirs, process, pdTimer,
            text_area, ok_enabled, to_add_given, pip_starts, pip_exits>>
wfVars == <<wfChecked, wfLabel, wfFields, wfScan, wfInstall, wfSsid, wfPwd,
            wfOp, wfResult>>
fwVars == <<fwExec, fwProcess, fwCommands, fwProcs, fwUnread, fwEmitted,
            fwTimers, fwLog, fwExc, fwOp>>
widgetVars == <<lkVars, inVars, pdVars, wfVars, fwVars>>
vars == <<modeVars, fmVars, rbVars, fdVars, widgetVars>>

\* What a step of one component leaves alone.
notMode == <<fmVars, rbVars, fdVars, widgetVars>>
notFM == <<modeVars, rbVars, fdVars, widgetVars>>
notReboot == <<modeVars, fmVars, fdVars, widgetVars>>
notLocator == <<modeVars, fmVars, rbVars, widgetVars>>
notLink == <<modeVars, fmVars, rbVars, fdVars, inVars, pdVars, wfVars, fwVars>>
notInstall == <<modeVars, fmVars, rbVars, fdVars, pdVars, wfVars, fwVars>>
notPackages == <<modeVars, fmVars, rbVars, fdVars, lkVars, inVars, wfVars,
                 fwVars>>
notWifi == <<fmVars, rbVars, fdVars, pdVars, fwVars>>
notFlasher == <<modeVars, fmVars, rbVars, fdVars, lkVars, inVars, pdVars, wfVars>>

(***************************************************************************)
(* Bounds                                                                  *)
(***************************************************************************)
\* Requests the filesystem pane issues to one file manager (besides on_start).
MaxJobs == 2

\* Bytes of read_until's buffer the model keeps (the newest ones). Every token
\* is shorter, so the test "token in buff" of a later read is not affected.
MaxBuff == 40

\* Entries of a board table and ports of one scan.
MaxBoards == 2
MaxPorts == 2

\* Calls of open_serial_link / close_serial_link on one object.
MaxCalls == 3

\* Lines in the text area of the package installer.
MaxLines == 3

\* Package names known to the package dialog.
MaxPackages == 2

JobIds == 0..MaxJobs

(***************************************************************************)
(* The mode's state as a record, so that handlers that call one another    *)
(* (run -> toggle_repl, is_connecting -> toggle_repl / toggle_plotter)     *)
(* compose as the code composes them.                                      *)
(***************************************************************************)
ModeState ==
    [repl |-> repl, plotter |-> plotter, fs |-> fs,
     file_manager |-> file_manager, file_manager_thread |-> file_manager_thread,
     timer |-> timer, buttons |-> buttons, serial |-> serial,
     shown |-> shown, lookups |-> lookups, trace |-> trace, exc |-> escaped]

\* Python truthiness of self.repl / self.plotter.
Truthy(v) == v = "True"

ButtonNames == {"run", "flash_sb", "files_sb", "repl", "plotter"}

\* BaseMode.set_buttons(**kwargs): kw maps some button names to booleans.
set_buttons(s, kw) ==
    [s EXCEPT !.buttons = [k \in ButtonNames |->
                              IF k \in DOMAIN kw THEN kw[k] ELSE s.buttons[k]]]

\* One step of a handler and whether it succeeded.
log(s, name, ok) == [s EXCEPT !.trace = Append(@, [step |-> name, ok |-> ok])]

\* raise: the exception x propagates out of the current call.
raise(s, x) == [s EXCEPT !.exc = x]

\* self.view.show_message(message, information)
show_message(s, m) == [s EXCEPT !.shown = Append(@, m)]

\* MicroPythonMode.find_device: one scan of the serial ports.
find_device(s) == [s EXCEPT !.lookups = @ + 1]

timer_start(s) == IF ~s.timer THEN [s EXCEPT !.timer = TRUE] ELSE s
timer_stop(s) == IF s.timer THEN [s EXCEPT !.timer = FALSE] ELSE s

\* MicroPythonMode.remove_repl
remove_repl(s) == [s EXCEPT !.repl = "False"]

\* StuduinoBitMode.add_repl; e.dev: a board is attached, e.view: what
\* view.add_studuionbit_repl does ("ok", "ioerror", "error").
add_repl(s, e) ==
    LET s1 == find_device(s) IN
    IF e.dev
    THEN CASE e.view = "ok" -> [s1 EXCEPT !.repl = "True"]
           [] e.view = "ioerror" ->
                  show_message([s1 EXCEPT !.repl = "False"], "repl_io_error")
           [] OTHER -> s1
    ELSE show_message(s1, "no_device")

\* MicroPythonMode.toggle_repl
base_toggle_repl(s, e) ==
    IF Truthy(s.repl) THEN remove_repl(s) ELSE add_repl(s, e)

\* StuduinoBitMode.toggle_repl
toggle_repl(s, e) ==
    IF s.fs = "None"
    THEN IF Truthy(s.repl)
         THEN LET s1 == base_toggle_repl(s, e) IN
              IF ~(Truthy(s1.repl) \/ Truthy(s1.plotter))
              THEN timer_stop(set_buttons(s1, [files_sb |-> TRUE, flash_sb |-> TRUE]))
              ELSE s1
         ELSE LET s1 == base_toggle_repl(s, e) IN
              IF Truthy(s1.repl)
              THEN timer_start(set_buttons(s1, [files_sb |-> FALSE, flash_sb |-> FALSE]))
              ELSE s1
    ELSE show_message(s, "repl_fs_conflict")

\* BaseMode.remove_plotter
remove_plotter(s) == [s EXCEPT !.plotter = "None"]

\* MicroPythonMode.add_plotter
add_plotter(s, e) ==
    LET s1 == find_device(s) IN
    IF e.dev
    THEN CASE e.view = "ok" -> [s1 EXCEPT !.plotter = "True"]
           [] e.view = "ioerror" ->
                  show_message([s1 EXCEPT !.plotter = "False"], "plotter_io_error")
           [] OTHER -> s1
    ELSE show_message(s1, "no_device")

\* MicroPythonMode.toggle_plotter
base_toggle_plotter(s, e) ==
    IF Truthy(s.plotter) THEN remove_plotter(s) ELSE add_plotter(s, e)

\* toggle_plotter without the check for the file pane.
toggle_plotter_unchecked(s, e) ==
    LET s1 == base_toggle_plotter(s, e) IN
    IF Truthy(s1.plotter)
    THEN timer_start(set_buttons(s1, [files_sb |-> FALSE, flash_sb |-> FALSE]))
    ELSE IF ~(Truthy(s1.repl) \/ Truthy(s1.plotter))
         THEN timer_stop(set_buttons(s1, [files_sb |-> TRUE, flash_sb |-> TRUE]))
         ELSE s1

\* StuduinoBitMode.toggle_plotter
toggle_plotter(s, e) ==
    IF s.fs = "None"
    THEN LET s1 == base_toggle_plotter(s, e) IN
         IF Truthy(s1.plotter)
         THEN timer_start(set_buttons(s1, [files_sb |-> FALSE, flash_sb |-> FALSE]))
         ELSE IF ~(Truthy(s1.repl) \/ Truthy(s1.plotter))
              THEN timer_stop(set_buttons(s1, [files_sb |-> TRUE, flash_sb |-> TRUE]))
              ELSE s1
    ELSE show_message(s, "plotter_fs_conflict")

\* add_fs with the thread and the file manager made before the device lookup.
add_fs_thread_before_lookup(s, e) ==
    LET s1 == [find_device(s) EXCEPT !.file_manager_thread = "obj",
                                     !.file_manager = "obj"]
    IN
    IF ~e.dev
    THEN show_message(s1, "no_device")
    ELSE [s1 EXCEPT !.fs = "pane"]

\* StuduinoBitMode.add_fs
add_fs(s, e) ==
    LET s1 == find_device(s) IN
    IF ~e.dev
    THEN show_message(s1, "no_device")
    ELSE [s1 EXCEPT !.file_manager_thread = "obj", !.file_manager = "obj",
                    !.fs = "pane"]

\* StuduinoBitMode.remove_fs: the references are dropped; the worker thread
\* is not told to quit and the file manager's session is not closed here.
remove_fs(s) ==
    [s EXCEPT !.file_manager = "None", !.file_manager_thread = "None",
              !.fs = "None"]

\* The test at the head of toggle_files, made on the plotter alone.
files_blocked_by_plotter(s) == Truthy(s.plotter)

\* The test at the head of toggle_files.
files_blocked(s) == Truthy(s.repl)

\* StuduinoBitMode.toggle_files
toggle_files(s, e) ==
    IF files_blocked(s)
    THEN show_message(s, "fs_repl_conflict")
    ELSE IF s.fs = "None"
         THEN LET s1 == add_fs(s, e) IN
              IF s1.fs # "None"
              THEN set_buttons(s1, [run |-> FALSE, repl |-> FALSE,
                                    plotter |-> FALSE, flash_sb |-> FALSE])
              ELSE s1
         ELSE set_buttons(remove_fs(s), [run |-> TRUE, repl |-> TRUE,
                                         plotter |-> TRUE, flash_sb |-> TRUE])

\* StuduinoBitMode.on_data_flood -> MicroPythonMode.on_data_flood ->
\* BaseMode.on_data_flood
on_data_flood(s) ==
    LET s1 == set_buttons(s, [files_sb |-> TRUE])
        s2 == remove_repl(s1)
        s3 == [s2 EXCEPT !.plotter = "None"]
    IN show_message(s3, "data_flood")

\* StuduinoBitMode.is_connecting
is_connecting(s, e) ==
    LET s0 == find_device(s) IN
    IF e.dev
    THEN s0
    ELSE LET s1 == timer_stop(s0)
             s2 == IF Truthy(s1.repl) THEN toggle_repl(s1, e) ELSE s1
             s3 == IF Truthy(s2.plotter) THEN toggle_plotter(s2, e) ELSE s2
         IN show_message(s3, "no_device")

\* StuduinoBitMode.open_serial_link(port): the QSerialPort object is created
\* in any case; it is open when a port was found and the open succeeded, and
\* otherwise the call raises. Whether the platform lets a port that another
\* holder has open be opened again is the platform's choice (e.open); the
\* method itself looks at no other holder.
\* Without a port (find_device gave None) setPortName(None) raises.
open_serial_link(s, e) ==
    LET ok == e.dev /\ e.open
        s1 == log([s EXCEPT !.serial = IF ok THEN "open" ELSE "closed"],
                  "open_serial_link", ok)
    IN
    IF ok THEN s1 ELSE raise(s1, IF e.dev THEN "IOError" ELSE "TypeError")

\* StuduinoBitMode.close_serial_link
\* The attribute self.serial exists only once open_serial_link has run.
close_serial_link(s) ==
    IF s.serial = "unset"
    THEN raise(s, "AttributeError")
    ELSE IF s.serial \in {"open", "closed"}
         THEN log([s EXCEPT !.serial = "None"], "close_serial_link", TRUE)
         ELSE s

\* The part of run after initialize: the tab check, toggle_repl, send_commands.
run_script(s, e) ==
    IF ~e.tab
    THEN show_message(s, "no_tabs")
    ELSE IF ~Truthy(s.repl) THEN toggle_repl(s, e) ELSE s

\* The guard of run that decides whether initialize opens the serial link.
run_initializes(s) == ~Truthy(s.repl)

(***************************************************************************)
(* Holders of the device's port.                                           *)
(***************************************************************************)
ModeLinkOpen == serial = "open"
ViewConsumerOpen == Truthy(repl) \/ Truthy(plotter)
FMSessionOpen == fmSerial = "open"

Holders ==
    (IF ModeLinkOpen THEN {"mode"} ELSE {})
      \cup (IF ViewConsumerOpen THEN {"view"} ELSE {})
      \cup (IF FMSessionOpen THEN {"file_manager"} ELSE {})

(***************************************************************************)
(* The file manager (FileManager, StuduinoBitFileManager).                 *)
(* A path is the sequence of its components; a signal is its name and the  *)
(* argument it carries. Every method reports what it emitted and whether   *)
(* an exception left it.                                                   *)
(***************************************************************************)
DeviceFiles == {<<"main.py">>, <<"usr", "usr1.py">>}
LocalFiles == {<<"b.py">>, <<"home", "mu_code", "a.py">>}
GetTargets == {<<"home", "mu_code", "main.py">>}
Dists == {<<"usr">>}
Listing == <<"listing">>

Sig(name, arg) == [sig |-> name, arg |-> arg]

\* os.path.basename
basename(p) == <<p[Len(p)]>>

\* Evaluating self.serial raises AttributeError while on_start has not set it.
NoSession(ser) == ser = "unset"

\* FileManager.ls and StuduinoBitFileManager.tree; r: microfs.ls / tree raises.
ls(ser, r) ==
    IF NoSession(ser) \/ r
    THEN [out |-> <<Sig("on_list_fail", <<>>)>>, raises |-> FALSE]
    ELSE [out |-> <<Sig("on_list_files", Listing)>>, raises |-> FALSE]

\* on_start with Serial(...) outside the try.
on_start_open_unguarded(openOk, r) ==
    IF ~openOk
    THEN [serial |-> "unset", out |-> <<>>, raises |-> TRUE]
    ELSE [serial |-> "open", out |-> ls("open", r).out, raises |-> FALSE]

\* FileManager.on_start and StuduinoBitFileManager.on_start; openOk: Serial(...)
\* opens the port, r: the listing primitive raises.
on_start(openOk, r) ==
    IF ~openOk
    THEN [serial |-> "unset", out |-> <<Sig("on_list_fail", <<>>)>>,
          raises |-> FALSE]
    ELSE LET l == ls("open", r) IN
         [serial |-> "open",
          out |-> IF l.raises THEN l.out \o <<Sig("on_list_fail", <<>>)>>
                  ELSE l.out,
          raises |-> FALSE]

\* get that emits on_get_file before the transfer has run.
get_emit_first(ser, device_filename, local_filename, r) ==
    IF NoSession(ser) \/ r
    THEN [out |-> <<Sig("on_get_file", device_filename),
                    Sig("on_get_fail", device_filename)>>, raises |-> FALSE]
    ELSE [out |-> <<Sig("on_get_file", device_filename)>>, raises |-> FALSE]

\* get that reports the failure under the local filename.
get_fail_local(ser, device_filename, local_filename, r) ==
    IF NoSession(ser) \/ r
    THEN [out |-> <<Sig("on_get_fail", local_filename)>>, raises |-> FALSE]
    ELSE [out |-> <<Sig("on_get_file", device_filename)>>, raises |-> FALSE]

\* FileManager.get(device_filename, local_filename); r: microfs.get raises.
get(ser, device_filename, local_filename, r) ==
    IF NoSession(ser) \/ r
    THEN [out |-> <<Sig("on_get_fail", device_filename)>>, raises |-> FALSE]
    ELSE [out |-> <<Sig("on_get_file", device_filename)>>, raises |-> FALSE]

\* FileManager.put(local_filename) and
\* StuduinoBitFileManager.put(local_filename, dist); r: microfs.put raises.
put(ser, local_filename, r) ==
    IF NoSession(ser) \/ r
    THEN [out |-> <<Sig("on_put_fail", local_filename)>>, raises |-> FALSE]
    ELSE [out |-> <<Sig("on_put_file", basename(local_filename))>>,
          raises |-> FALSE]

\* FileManager.delete(device_filename); r: microfs.rm raises.
delete(ser, device_filename, r) ==
    IF NoSession(ser) \/ r
    THEN [out |-> <<Sig("on_delete_fail", device_filename)>>, raises |-> FALSE]
    ELSE [out |-> <<Sig("on_delete_file", device_filename)>>, raises |-> FALSE]

FailSignals == {"on_list_fail", "on_get_fail", "on_put_fail", "on_delete_fail"}

\* A failed operation that drops the session.
session_dropped_on_failure(ser, res) ==
    IF \E k \in 1..Len(res.out) : res.out[k].sig \in FailSignals
    THEN "unset" ELSE ser

\* The session a failed get, put or delete leaves behind: the one it found.
session_after(ser, res) == ser

NoPath == <<>>
Job(id, o, dev, loc, dist) ==
    [id |-> id, op |-> o, dev |-> dev, loc |-> loc, dist |-> dist]
OnStartJob == Job(0, "on_start", NoPath, NoPath, NoPath)

NoJob == Job(0, "none", NoPath, NoPath, NoPath)

\* job: the invocation; waited: it was requested while another was running;
\* began, done: the worker took it, finished it; opened: on_start opened the
\* session; raised: the device primitive raised; escaped: an exception left
\* the method; out: the signals emitted, in order.
NoEntry ==
    [job |-> NoJob, waited |-> FALSE, began |-> FALSE, done |-> FALSE,
     opened |-> FALSE, raised |-> FALSE, escaped |-> FALSE, out |-> <<>>]

EmptyLog == [i \in JobIds |-> NoEntry]

\* The log of a file manager whose thread has just been started.
StartLog == [EmptyLog EXCEPT ![0].job = OnStartJob]

\* What the filesystem pane can ask of a file manager of class k.
Requests(k) ==
    {[op |-> IF k = "FileManager" THEN "ls" ELSE "tree",
      dev |-> NoPath, loc |-> NoPath, dist |-> NoPath]}
    \cup {[op |-> "get", dev |-> d, loc |-> l, dist |-> NoPath] :
             d \in DeviceFiles, l \in GetTargets}
    \cup {[op |-> "put", dev |-> NoPath, loc |-> l,
           dist |-> IF k = "FileManager" THEN NoPath ELSE d] :
             l \in LocalFiles, d \in Dists}
    \cup {[op |-> "delete", dev |-> d, loc |-> NoPath, dist |-> NoPath] :
             d \in DeviceFiles}

\* A worker that takes an invocation while another is running.
WorkerAlwaysFree == TRUE

\* The file manager lives on its own thread (moveToThread), whose event loop
\* runs one slot invocation to its end before it takes the next.
WorkerFree == fmRunning = {}

\* self.file_manager_thread.start(): the started signal queues on_start.
StartFileManager(k) ==
    /\ fmKind' = k
    /\ fmSerial' = "unset"
    /\ fmQueue' = <<OnStartJob>>
    /\ fmRunning' = {}
    /\ fmNext' = 1
    /\ fmLog' = StartLog

\* The worker thread of the file manager runs from file_manager_thread.start()
\* on: no method of the mode or of the file manager calls quit() on it, and
\* the QThread is a child of the mode, so dropping the reference leaves it.
WorkerThreadRunning == fmKind # "none"

\* remove_fs drops the mode's references to the file manager and its thread;
\* it closes nothing. Whether the file manager object is finalized then, which
\* closes its Serial and drops the invocations queued for it, depends on the
\* references the pane and the signal connections still hold: either outcome
\* is possible. An object whose slot is running is not finalized.
DropFileManager ==
    \E collected \in BOOLEAN :
        /\ collected => fmRunning = {}
        /\ fmSerial' = IF collected /\ fmSerial = "open" THEN "closed" ELSE fmSerial
        /\ fmQueue' = IF collected THEN <<>> ELSE fmQueue
        /\ UNCHANGED <<fmKind, fmRunning, fmNext, fmLog>>

\* The pane's signal reaches the file manager's slot as a queued invocation.
Request ==
    /\ fmKind # "none"
    /\ fmNext <= MaxJobs
    /\ \E q \in Requests(fmKind) :
          LET j == Job(fmNext, q.op, q.dev, q.loc, q.dist) IN
          /\ fmQueue' = Append(fmQueue, j)
          /\ fmLog' = [fmLog EXCEPT ![fmNext].job = j,
                                    ![fmNext].waited = (fmRunning # {})]
    /\ fmNext' = fmNext + 1
    /\ UNCHANGED <<fmKind, fmSerial, fmRunning, notFM>>

\* The worker's event loop takes the next queued invocation.
FMBegin ==
    /\ WorkerFree
    /\ fmQueue # <<>>
    /\ LET j == Head(fmQueue) IN
          /\ fmRunning' = fmRunning \cup {j}
          /\ fmLog' = [fmLog EXCEPT ![j.id].began = TRUE]
    /\ fmQueue' = Tail(fmQueue)
    /\ UNCHANGED <<fmKind, fmSerial, fmNext, notFM>>

\* The running job j ends with result res (of the method) and session ser.
Finish(j, opened, r, res, ser) ==
    /\ fmRunning' = fmRunning \ {j}
    /\ fmSerial' = ser
    /\ fmLog' = [fmLog EXCEPT ![j.id].done = TRUE, ![j.id].opened = opened,
                              ![j.id].raised = r, ![j.id].escaped = res.raises,
                              ![j.id].out = res.out]
    /\ UNCHANGED <<fmKind, fmQueue, fmNext, notFM>>

FMOnStart ==
    \E j \in fmRunning, openOk \in BOOLEAN, r \in BOOLEAN :
        /\ j.op = "on_start"
        /\ (~openOk => ~r)
        /\ LET res == on_start(openOk, r) IN
           Finish(j, openOk, ~openOk \/ r, res, res.serial)

FMList ==
    \E j \in fmRunning, r \in BOOLEAN :
        /\ j.op \in {"ls", "tree"}
        /\ LET res == ls(fmSerial, r) IN Finish(j, FALSE, r, res, fmSerial)

FMGet ==
    \E j \in fmRunning, r \in BOOLEAN :
        /\ j.op = "get"
        /\ LET res == get(fmSerial, j.dev, j.loc, r)
           IN Finish(j, FALSE, r, res, session_after(fmSerial, res))

FMPut ==
    \E j \in fmRunning, r \in BOOLEAN :
        /\ j.op = "put"
        /\ LET res == put(fmSerial, j.loc, r)
           IN Finish(j, FALSE, r, res, session_after(fmSerial, res))

FMDelete ==
    \E j \in fmRunning, r \in BOOLEAN :
        /\ j.op = "delete"
        /\ LET res == delete(fmSerial, j.dev, r)
           IN Finish(j, FALSE, r, res, session_after(fmSerial, res))

(***************************************************************************)
(* The UI thread: one action per handler. A handler that opens the mode's  *)
(* own serial link (toggle_flash, run through initialize) is two steps,    *)
(* so that the link is seen open while the handler talks to the device;    *)
(* no other handler runs on the UI thread in between.                      *)
(***************************************************************************)
Views == {"ok", "ioerror", "error"}

Env(dev, view, open, tab) == [dev |-> dev, view |-> view, open |-> open, tab |-> tab]

\* The state a handler call starts from: its own log of notifications and lookups.
Fresh ==
    [ModeState EXCEPT !.shown = <<>>, !.lookups = 0, !.trace = <<>>,
                      !.exc = "none"]

Commit(t) ==
    /\ repl' = t.repl
    /\ plotter' = t.plotter
    /\ fs' = t.fs
    /\ file_manager' = t.file_manager
    /\ file_manager_thread' = t.file_manager_thread
    /\ timer' = t.timer
    /\ buttons' = t.buttons
    /\ serial' = t.serial
    /\ shown' = t.shown
    /\ lookups' = t.lookups
    /\ trace' = t.trace
    /\ escaped' = t.exc

ToggleRepl ==
    /\ pc = "idle"
    /\ \E dev \in BOOLEAN, view \in Views :
          Commit(toggle_repl(Fresh, Env(dev, view, FALSE, FALSE)))
    /\ op' = "toggle_repl"
    /\ UNCHANGED <<pc, readUntilThreads, notMode>>

TogglePlotter ==
    /\ pc = "idle"
    /\ \E dev \in BOOLEAN, view \in Views :
          Commit(toggle_plotter(Fresh, Env(dev, view, FALSE, FALSE)))
    /\ op' = "toggle_plotter"
    /\ UNCHANGED <<pc, readUntilThreads, notMode>>

ToggleFiles ==
    /\ pc = "idle"
    /\ \E dev \in BOOLEAN :
          LET t == toggle_files(Fresh, Env(dev, "ok", FALSE, FALSE)) IN
          /\ Commit(t)
          /\ IF fs = "None" /\ t.fs # "None"
             THEN StartFileManager("StuduinoBitFileManager")
             ELSE IF fs # "None" /\ t.fs = "None"
                  THEN DropFileManager
                  ELSE UNCHANGED fmVars
    /\ op' = "toggle_files"
    /\ UNCHANGED <<pc, readUntilThreads, rbVars, fdVars, widgetVars>>

OnDataFlood ==
    /\ pc = "idle"
    /\ Commit(on_data_flood(Fresh))
    /\ op' = "on_data_flood"
    /\ UNCHANGED <<pc, readUntilThreads, notMode>>

\* The slot of self.timer.timeout: it runs only while the timer is active.
IsConnecting ==
    /\ pc = "idle"
    /\ timer
    /\ \E dev \in BOOLEAN :
          Commit(is_connecting(Fresh, Env(dev, "ok", FALSE, FALSE)))
    /\ op' = "is_connecting"
    /\ UNCHANGED <<pc, readUntilThreads, notMode>>

\* The thread a handler of actions() runs on: the button bar calls it from
\* the UI event loop, and the handlers start no thread for their own work.
HandlerThread == "ui"

\* except Exception: the exception is handled here.
caught(s) == [s EXCEPT !.exc = "none"]

\* toggle_flash up to and including open_serial_link.
FlashBegin ==
    /\ pc = "idle"
    /\ \E dev \in BOOLEAN, open \in BOOLEAN :
          LET t == open_serial_link(find_device(Fresh), Env(dev, "ok", open, FALSE)) IN
          IF t.exc = "none"
          THEN Commit(t) /\ pc' = "flash"
          ELSE Commit(show_message(caught(t), "no_device")) /\ pc' = "idle"
    /\ op' = "toggle_flash"
    /\ UNCHANGED <<readUntilThreads, notMode>>

FlashOutcomes ==
    {"cancel", "save_fail", "reboot_fail", "upload_fail", "restart_fail", "ok"}

\* The statements of toggle_flash after the open, each with the try block it
\* sits in: save() shows the slot dialog and writes usr<n>.py, restart()
\* records the slot with sbfs.execute and calls reboot.
FlashProgram ==
    << [step |-> "select_slot", block |-> "save_fail"],
       [step |-> "save_and_encode", block |-> "save_fail"],
       [step |-> "reboot_and_prompt", block |-> "reboot_fail"],
       [step |-> "upload", block |-> "upload_fail"],
       [step |-> "record_slot", block |-> "restart_fail"],
       [step |-> "reboot", block |-> "restart_fail"] >>

FlashSteps == {FlashProgram[i].step : i \in DOMAIN FlashProgram}

\* What toggle_flash reports for each way it can end.
flash_report(o) ==
    CASE o = "cancel" -> <<>>
      [] o = "save_fail" -> <<"box_file_save_error">>
      [] o = "reboot_fail" -> <<"box_reboot_error">>
      [] o = "upload_fail" -> <<"box_upload_error">>
      [] o = "restart_fail" -> <<"box_restart_error">>
      [] OTHER -> <<"status_transfer_success">>

\* How toggle_flash ends with outcome o: the report, then the close.
flash_end(s, o) ==
    close_serial_link(caught([s EXCEPT !.shown = @ \o flash_report(o)]))

\* toggle_flash that goes on to the next block after a failed upload.
RECURSIVE toggle_flash_upload_unchecked(_, _, _, _)
toggle_flash_upload_unchecked(s, i, cancelled, fails) ==
    IF i > Len(FlashProgram)
    THEN flash_end(s, "ok")
    ELSE LET p == FlashProgram[i] IN
         IF p.step \in fails /\ p.step # "upload"
         THEN flash_end(log(s, p.step, FALSE), p.block)
         ELSE IF p.step = "select_slot" /\ cancelled
              THEN close_serial_link(log(s, p.step, TRUE))
              ELSE toggle_flash_upload_unchecked(
                       log(s, p.step, p.step \notin fails), i + 1, cancelled, fails)

\* toggle_flash from save() on, statement by statement from statement i:
\* cancelled is the slot dialog's result, fails the statements that raise
\* when they run.
RECURSIVE toggle_flash_from(_, _, _, _)
toggle_flash_from(s, i, cancelled, fails) ==
    IF i > Len(FlashProgram)
    THEN flash_end(s, "ok")
    ELSE LET p == FlashProgram[i] IN
         IF p.step \in fails
         THEN flash_end(log(s, p.step, FALSE), p.block)
         ELSE IF p.step = "select_slot" /\ cancelled
              THEN close_serial_link(log(s, p.step, TRUE))
              ELSE toggle_flash_from(log(s, p.step, TRUE), i + 1, cancelled, fails)

\* The call ran reboot or reboot_and_prompt, and so read_until.
Rebooted(t) ==
    \E i \in DOMAIN t.trace : t.trace[i].step \in {"reboot", "reboot_and_prompt"}

\* toggle_flash from save() on: every path ends in close_serial_link.
FlashFinish ==
    /\ pc = "flash"
    /\ \E cancelled \in BOOLEAN, fails \in SUBSET FlashSteps :
          LET t == toggle_flash_from(ModeState, 1, cancelled, fails) IN
          /\ Commit(t)
          /\ readUntilThreads' = IF Rebooted(t)
                                 THEN readUntilThreads \cup {HandlerThread}
                                 ELSE readUntilThreads
    /\ pc' = "idle"
    /\ UNCHANGED <<op, notMode>>

\* initialize up to the open: a failure becomes RuntimeError('Open Serial
\* Error').
initialize_open(s, e) ==
    LET t == open_serial_link(find_device(s), e) IN
    IF t.exc = "none" THEN t ELSE raise(t, "Open Serial Error")

\* run without its handler around initialize.
run_unhandled(s) == s

\* The handler of run around initialize: the message depends on e.args[0].
run_except(s) ==
    CASE s.exc = "Open Serial Error" -> show_message(caught(s), "no_device")
      [] s.exc = "Reboot Error" -> show_message(caught(s), "reboot_error")
      [] OTHER -> show_message(caught(s), "reset_error")

\* run up to and including initialize's open_serial_link; run without
\* initialize when the REPL is active.
RunBegin ==
    /\ pc = "idle"
    /\ \E dev \in BOOLEAN, view \in Views, open \in BOOLEAN, tab \in BOOLEAN :
          LET e == Env(dev, view, open, tab) IN
          IF run_initializes(Fresh)
          THEN LET t == initialize_open(Fresh, e) IN
               IF t.exc = "none"
               THEN Commit(t) /\ pc' = "run"
               ELSE Commit(run_except(t)) /\ pc' = "idle"
          ELSE Commit(run_script(Fresh, e)) /\ pc' = "idle"
    /\ op' = "run"
    /\ UNCHANGED <<readUntilThreads, notMode>>

InitializeOutcomes == {"ok", "reboot_fail", "reset_fail"}

\* initialize that forgets the close when the command batch fails.
initialize_rest_leaky(s, o) ==
    CASE o = "reboot_fail" ->
             raise(close_serial_link(log(s, "reboot_and_prompt", FALSE)),
                   "Reboot Error")
      [] o = "reset_fail" ->
             raise(log(log(s, "reboot_and_prompt", TRUE), "execute", FALSE),
                   "Reset Error")
      [] OTHER ->
             close_serial_link(log(log(s, "reboot_and_prompt", TRUE),
                                   "execute", TRUE))

\* initialize after the open: reboot_and_prompt, the command batch that sets
\* lastSelected, the close; o says which of them raises.
initialize_rest(s, o) ==
    CASE o = "reboot_fail" ->
             raise(close_serial_link(log(s, "reboot_and_prompt", FALSE)),
                   "Reboot Error")
      [] o = "reset_fail" ->
             raise(close_serial_link(log(log(s, "reboot_and_prompt", TRUE),
                                         "execute", FALSE)),
                   "Reset Error")
      [] OTHER ->
             close_serial_link(log(log(s, "reboot_and_prompt", TRUE),
                                   "execute", TRUE))

\* initialize from reboot_and_prompt on, then the rest of run.
RunFinish ==
    /\ pc = "run"
    /\ \E o \in InitializeOutcomes, dev \in BOOLEAN, view \in Views, tab \in BOOLEAN :
          LET t == initialize_rest(ModeState, o) IN
          IF t.exc = "none"
          THEN Commit(run_script(t, Env(dev, view, FALSE, tab)))
          ELSE Commit(run_except(t))
    /\ readUntilThreads' = readUntilThreads \cup {HandlerThread}
    /\ pc' = "idle"
    /\ UNCHANGED <<op, notMode>>

(***************************************************************************)
(* The reboot handshake: reboot, reboot_and_prompt and read_until.         *)
(* Received bytes are sequences of characters, so that a token split over  *)
(* several reads is found only once the buffer holds all of it. A write is *)
(* the string handed to serial.write.                                      *)
(***************************************************************************)
CTRL_C == "0x03"
CTRL_A == "0x01"
CTRL_D == "0x04"
IMPORT_MACHINE == "import machine\r\n"
MACHINE_RESET == "machine.reset()\r\n"

\* b">>> "
PROMPT == <<">", ">", ">", " ">>

\* b"Execute last selected script."
READY ==
    <<"E", "x", "e", "c", "u", "t", "e", " ", "l", "a", "s", "t", " ",
      "s", "e", "l", "e", "c", "t", "e", "d", " ", "s", "c", "r", "i", "p", "t", ".">>

\* Python's `token in buff`
Contains(b, t) ==
    \E i \in 0..(Len(b) - Len(t)) : SubSeq(b, i + 1, i + Len(t)) = t

W(data) == [k |-> "write", data |-> data, token |-> <<>>]
R(token) == [k |-> "read_until", data |-> "", token |-> token]
Sleep == [k |-> "sleep", data |-> "", token |-> <<>>]

\* reboot that does not wait for the prompt after the interrupt.
reboot_without_prompt_wait ==
    <<W(CTRL_C), W(CTRL_A), W(IMPORT_MACHINE), Sleep, W(MACHINE_RESET), Sleep,
      W(CTRL_D), R(READY)>>

\* StuduinoBitMode.reboot, statement by statement.
reboot ==
    <<W(CTRL_C), R(PROMPT), W(CTRL_A), W(IMPORT_MACHINE), Sleep,
      W(MACHINE_RESET), Sleep, W(CTRL_D), R(READY)>>

reboot_and_prompt_without_prompt_wait == reboot \o <<W(CTRL_C)>>

\* StuduinoBitMode.reboot_and_prompt
reboot_and_prompt == reboot \o <<W(CTRL_C), R(PROMPT)>>

Program == IF rbEntry = "reboot" THEN reboot ELSE reboot_and_prompt

Step == Program[rbPc]

\* What a board may send back on a write: nothing, part of a prompt, the
\* prompt after an interrupt, the boot log with or without the ready marker
\* after the reset.
DeviceReplies(data) ==
    CASE data = CTRL_C -> {<<>>, <<">", ">">>, <<"\r", "\n">> \o PROMPT}
      [] data = CTRL_A -> {<<>>, <<">">>}
      [] data = CTRL_D -> {<<>>, <<"O", "K">>, <<"O", "K">> \o READY}
      [] OTHER -> {<<>>}

\* A board that answers as the handshake expects: the prompt on an interrupt,
\* the boot log ending in the ready marker on the soft reset.
ScriptedReplies(data) ==
    CASE data = CTRL_C -> {<<"\r", "\n">> \o PROMPT}
      [] data = CTRL_D -> {<<"O", "K">> \o READY}
      [] OTHER -> {<<>>}

Replies(data) ==
    IF rbDevice = "scripted" THEN ScriptedReplies(data) ELSE DeviceReplies(data)

\* The newest MaxBuff bytes of b.
Newest(b) ==
    IF Len(b) > MaxBuff THEN SubSeq(b, Len(b) - MaxBuff + 1, Len(b)) ELSE b

\* Return values of read_until: nothing returned yet, None, a byte string.
NoReturn == [kind |-> "unset", value |-> <<>>]
ReturnNone == [kind |-> "None", value |-> <<>>]
ReturnBytes(b) == [kind |-> "bytes", value |-> b]

\* read_until leaves its loop with break and has no return statement.
read_until_result(b) == ReturnNone

\* The statement after the current one; the method returns after its last.
Advance ==
    IF rbPc = Len(Program)
    THEN rbPc' = rbPc /\ rbStatus' = "returned"
    ELSE rbPc' = rbPc + 1 /\ rbStatus' = "running"

\* serial.write(data)
RbWrite ==
    /\ rbStatus = "running"
    /\ Step.k = "write"
    /\ written' = Append(written, Step.data)
    /\ \E reply \in Replies(Step.data) : devOut' = devOut \o reply
    /\ Advance
    /\ UNCHANGED <<rbEntry, reads, buff, rx, ruReturn, rbDevice, notReboot>>

\* time.sleep(0.01)
RbSleep ==
    /\ rbStatus = "running"
    /\ Step.k = "sleep"
    /\ Advance
    /\ UNCHANGED <<rbEntry, written, reads, buff, rx, devOut, ruReturn,
                   rbDevice, notReboot>>

\* read_until is entered: buff = bytearray()
ReadUntilCall ==
    /\ rbStatus = "running"
    /\ Step.k = "read_until"
    /\ buff' = <<>>
    /\ rbStatus' = "reading"
    /\ UNCHANGED <<rbEntry, rbPc, written, reads, rx, devOut, ruReturn,
                   rbDevice, notReboot>>

\* waitForReadyRead(timeout) reports data: readAll, extend, test for the token.
ReadUntilData ==
    /\ rbStatus = "reading"
    /\ rx # <<>>
    /\ buff' = Newest(buff \o rx)
    /\ rx' = <<>>
    /\ IF Contains(buff', Step.token)
       THEN /\ reads' = Append(reads, Step.token)
            /\ ruReturn' = read_until_result(buff')
            /\ Advance
       ELSE UNCHANGED <<reads, ruReturn, rbPc, rbStatus>>
    /\ UNCHANGED <<rbEntry, written, devOut, rbDevice, notReboot>>

\* waitForReadyRead(timeout) reports no data within the timeout. What the
\* scripted board has sent arrives before the timeout.
ReadUntilTimeout ==
    /\ rbStatus = "reading"
    /\ rx = <<>>
    /\ rbDevice = "scripted" => devOut = <<>>
    /\ rbStatus' = "TimeoutError"
    /\ UNCHANGED <<rbEntry, rbPc, written, reads, buff, rx, devOut, ruReturn,
                   rbDevice, notReboot>>

\* Some of the bytes under way arrive at the host.
Deliver ==
    /\ devOut # <<>>
    /\ \E n \in 1..Len(devOut) :
          /\ rx' = rx \o SubSeq(devOut, 1, n)
          /\ devOut' = SubSeq(devOut, n + 1, Len(devOut))
    /\ UNCHANGED <<rbEntry, rbPc, rbStatus, written, reads, buff, ruReturn,
                   rbDevice, notReboot>>

\* A board that is not waiting at a prompt keeps printing (a running script,
\* the boot log): one more byte that belongs to no marker arrives while the
\* host waits.
Chatter ==
    /\ rbDevice = "any"
    /\ rbStatus = "reading"
    /\ rx = <<>>
    /\ devOut = <<>>
    /\ rx' = <<"x">>
    /\ UNCHANGED <<rbEntry, rbPc, rbStatus, written, reads, buff, devOut,
                   ruReturn, rbDevice, notReboot>>

(***************************************************************************)
(* The device locator: MicroPythonMode.find_device and port_path.          *)
(* Vendor and product identifiers are written as in the source; a product  *)
(* of "None" in a board table entry stands for any product of that vendor. *)
(* A path is the sequence of the pieces the code joins.                    *)
(***************************************************************************)
\* StuduinoBitMode.valid_boards
StuduinoBitBoards == {<<"0x20A0", "0x4269">>}

BoardEntries ==
    {<<"0x20A0", "0x4269">>, <<"0x20A0", "None">>, <<"0x0D28", "0x0204">>,
     <<"0x0D28", "None">>}

Port(vid, pid, name, sn) ==
    [vid |-> vid, pid |-> pid, name |-> name, serial |-> sn]

ScannedPorts ==
    {Port("0x20A0", "0x4269", "ttyACM0", "SB0001"),
     Port("0x20A0", "0x0204", "ttyACM1", "SB0002"),
     Port("0x0D28", "0x0204", "COM3", "MB0003"),
     Port("0x10C4", "0xEA60", "ttyUSB0", "")}

OsNames == {"posix", "nt", "java"}

BoardTables == {B \in SUBSET BoardEntries : Cardinality(B) <= MaxBoards}

\* The scans of at most MaxPorts distinct ports, in every order.
Scans ==
    {P \in UNION {[1..n -> ScannedPorts] : n \in 0..MaxPorts} :
        \A i, j \in DOMAIN P : i # j => P[i] # P[j]}

Raised(e) == [raised |-> e, value |-> <<>>]
Returned(v) == [raised |-> "no", value |-> v]

port_path_prefix_always(os, port_name) == Returned(<<"/dev/", port_name>>)

\* MicroPythonMode.port_path
port_path(os, port_name) ==
    IF os = "posix"
    THEN Returned(<<"/dev/", port_name>>)
    ELSE IF os = "nt"
         THEN Returned(<<port_name>>)
         ELSE Raised("NotImplementedError")

\* Outcomes of find_device: the pair it returns, or the exception of port_path.
NotCalled == [kind |-> "unset", port |-> <<>>, serial |-> ""]
Pair(port, sn) == [kind |-> "pair", port |-> port, serial |-> sn]
NonePair == [kind |-> "none", port |-> <<>>, serial |-> ""]
Failure(e) == [kind |-> e, port |-> <<>>, serial |-> ""]

RECURSIVE find_device_exact_only(_, _, _)
find_device_exact_only(B, P, os) ==
    IF P = <<>>
    THEN NonePair
    ELSE LET port == Head(P) IN
         IF <<port.vid, port.pid>> \in B
         THEN LET path == port_path(os, port.name) IN
              IF path.raised # "no"
              THEN Failure(path.raised)
              ELSE Pair(path.value, port.serial)
         ELSE find_device_exact_only(B, Tail(P), os)

\* MicroPythonMode.find_device over the ports of one scan: the loop body for
\* the first port, then the rest of the loop.
RECURSIVE scan_ports(_, _, _)
scan_ports(B, P, os) ==
    IF P = <<>>
    THEN NonePair
    ELSE LET port == Head(P)
             pid == port.pid
             vid == port.vid
         IN
         IF <<vid, pid>> \in B \/ <<vid, "None">> \in B
         THEN LET path == port_path(os, port.name) IN
              IF path.raised # "no"
              THEN Failure(path.raised)
              ELSE Pair(path.value, port.serial)
         ELSE scan_ports(B, Tail(P), os)

\* A find_device call of a mode with board table valid_boards.
FindDeviceCall ==
    /\ fdResult = NotCalled
    /\ fdResult' = scan_ports(valid_boards, available_ports, os_name)
    /\ UNCHANGED <<valid_boards, available_ports, os_name, ppResult, notLocator>>

\* A port_path call on the name of a scanned port.
PortPathCall ==
    /\ ppResult.name = ""
    /\ \E port \in ScannedPorts :
          ppResult' = [name |-> port.name, out |-> port_path(os_name, port.name)]
    /\ UNCHANGED <<valid_boards, available_ports, os_name, fdResult, notLocator>>

(***************************************************************************)
(* The serial link of StuduinoBitMode and of ESP32PackagesWidget:          *)
(* open_serial_link and close_serial_link, which are the same code in both *)
(* classes. The log holds the calls made on the QSerialPort and on         *)
(* pyserial, in order.                                                     *)
(***************************************************************************)
LinkClasses == {"StuduinoBitMode", "ESP32PackagesWidget"}

\* The names the module of each class binds at its top level that the two
\* methods use: studuinobit.py has 'from serial import Serial', dialogs.py
\* imports nothing of pyserial; neither binds the name 'serial'.
ModuleNames(c) ==
    IF c = "StuduinoBitMode"
    THEN {"QIODevice", "QSerialPort", "Serial", "_"}
    ELSE {"QIODevice", "QSerialPort", "_"}

\* The ports handed to open_serial_link: what find_device returned.
LinkPorts == {"None", "/dev/ttyACM0", "COM3"}

NoExc == [type |-> "none", msg |-> <<>>]
Exc(type, msg) == [type |-> type, msg |-> msg]

LinkResult(ser, baud, lg, exc) ==
    [serial |-> ser, baud |-> baud, log |-> lg, exc |-> exc]

\* What the platform does during one open_serial_link call: the result of
\* the first open, of isDataTerminalReady, and of the second open.
LinkInputs ==
    [port : LinkPorts, openOk : BOOLEAN, dtrOk : BOOLEAN, reopenOk : BOOLEAN]

NoInput == [port |-> "None", openOk |-> FALSE, dtrOk |-> FALSE, reopenOk |-> FALSE]

\* open_serial_link that returns without raising when the open fails.
link_open_silent(c, in) ==
    LET log0 == <<"QSerialPort()", "setPortName", "open">> IN
    IF in.port = "None"
    THEN LinkResult("closed", "unset", <<"QSerialPort()", "setPortName">>,
                    Exc("TypeError", <<>>))
    ELSE IF in.openOk
         THEN LinkResult("open", "115200",
                         log0 \o <<"setDataTerminalReady(True)",
                                   "isDataTerminalReady", "setBaudRate(115200)">>,
                         NoExc)
         ELSE LinkResult("closed", "unset", log0, NoExc)

\* open_serial_link(port) of class c
link_open(c, in) ==
    LET log0 == <<"QSerialPort()", "setPortName">>
        log1 == log0 \o <<"open">>
        log2 == log1 \o <<"setDataTerminalReady(True)", "isDataTerminalReady">>
        log3 == log2 \o <<"close">>
        log4 == log3 \o <<"serial.Serial(port)", "pyser.dtr = True",
                          "pyser.close()", "open">>
        baud == <<"setBaudRate(115200)">>
    IN
    IF in.port = "None"
    THEN LinkResult("closed", "unset", log0, Exc("TypeError", <<>>))
    ELSE IF in.openOk
         THEN IF ~in.dtrOk
              THEN IF "serial" \notin ModuleNames(c)
                   THEN LinkResult("closed", "unset", log3,
                                   Exc("NameError", <<"serial">>))
                   ELSE LinkResult(IF in.reopenOk THEN "open" ELSE "closed",
                                   "115200", log4 \o baud, NoExc)
              ELSE LinkResult("open", "115200", log2 \o baud, NoExc)
         ELSE LinkResult("closed", "unset", log1,
                         Exc("IOError",
                             <<"Cannot connect to device on port ", in.port>>))

\* close_serial_link(): 'if self.serial:' reads the attribute, which exists
\* only once open_serial_link has assigned it; a QSerialPort object is true.
link_close(ser) ==
    IF ser = "unset"
    THEN LinkResult(ser, "unset", <<>>, Exc("AttributeError", <<"serial">>))
    ELSE IF ser \in {"open", "closed"}
         THEN LinkResult("None", "unset", <<"close">>, NoExc)
         ELSE LinkResult(ser, "unset", <<>>, NoExc)

LinkCommit(r) ==
    /\ lkSerial' = r.serial
    /\ lkBaud' = r.baud
    /\ lkLog' = r.log
    /\ lkExc' = r.exc

OpenSerialLink ==
    /\ Len(lkCalls) < MaxCalls
    /\ \E in \in LinkInputs :
          /\ lkIn' = in
          /\ LinkCommit(link_open(lkClass, in))
    /\ lkOp' = "open_serial_link"
    /\ lkCalls' = Append(lkCalls, "open_serial_link")
    /\ UNCHANGED <<lkClass, notLink>>

CloseSerialLink ==
    /\ Len(lkCalls) < MaxCalls
    /\ LinkCommit(link_close(lkSerial))
    /\ lkIn' = NoInput
    /\ lkOp' = "close_serial_link"
    /\ lkCalls' = Append(lkCalls, "close_serial_link")
    /\ UNCHANGED <<lkClass, notLink>>

(***************************************************************************)
(* ESP32PackagesWidget.install: one upip command per line of the text      *)
(* area, and a report with one entry per library name.                     *)
(***************************************************************************)
\* The lines the user can have typed; "" is an empty line.
LibLines == {"", "urequests", "umqtt"}

Texts == UNION {[1..n -> LibLines] : n \in 0..MaxLines}

\* b"Error"
ErrorMarker == <<"E", "r", "r", "o", "r">>

\* Captured outputs of a upip command: a clean one, one with an error
\* followed by a well-formed prompt, one with the word in lower case, and
\* one that stops short of the marker.
UpipOutputs ==
    { <<"O", "K">>,
      <<"I", "m", "p", "o", "r", "t", "E", "r", "r", "o", "r", ">", ">", ">">>,
      <<"e", "r", "r", "o", "r">>,
      <<"E", "r", "r", "o">> }

\* send_cmd returns (out, err) or raises IOError.
SendCmdRaises == [raises |-> TRUE, out |-> <<>>]
SendCmdReturns(out) == [raises |-> FALSE, out |-> out]
SendCmdReplies == {SendCmdRaises} \cup {SendCmdReturns(o) : o \in UpipOutputs}

\* What install meets when it opens the port: no board, a port that does
\* not open, a port that opens with or without DTR.
InstallEnvs ==
    {in \in LinkInputs : in.port # "COM3" /\ ~in.reopenOk
                         /\ (in.port = "None" => ~in.openOk /\ ~in.dtrOk)
                         /\ (~in.openOk => ~in.dtrOk)}

\* libs = [l for l in libs if l != ""]
NonEmptyLines(text) == SelectSeq(text, LAMBDA l : l # "")

\* The verdict taken from the first bytes of the output only.
upip_verdict_prefix(out) ==
    IF Len(out) >= Len(ErrorMarker) /\ SubSeq(out, 1, Len(ErrorMarker)) = ErrorMarker
    THEN "NG" ELSE "OK"

\* if b"Error" in out
upip_verdict(out) == IF Contains(out, ErrorMarker) THEN "NG" ELSE "OK"

\* result.update({lib: ...}): a new key goes to the end, a key already there
\* keeps its place and takes the new value.
dict_update(d, e) ==
    IF \E i \in DOMAIN d : d[i].lib = e.lib
    THEN [i \in DOMAIN d |-> IF d[i].lib = e.lib THEN e ELSE d[i]]
    ELSE Append(d, e)

\* The loop over libs from the k-th on; the result is the dictionary, or
\* "IOError" when send_cmd raised.
RECURSIVE install_loop(_, _, _, _)
install_loop(libs, replies, k, result) ==
    IF k > Len(libs)
    THEN [raised |-> FALSE, result |-> result]
    ELSE IF replies[k].raises
         THEN [raised |-> TRUE, result |-> result]
         ELSE install_loop(libs, replies, k + 1,
                           dict_update(result,
                                       [lib |-> libs[k],
                                        verdict |-> upip_verdict(replies[k].out),
                                        out |-> replies[k].out]))

\* The slot of button_inst.clicked
Install ==
    /\ inPc = "idle"
    /\ inPc' = "done"
    /\ LET opened == link_open(lkClass, inEnv)
           loop == install_loop(NonEmptyLines(inText), inReplies, 1, <<>>)
       IN
       /\ lkIn' = inEnv
       /\ IF opened.exc # NoExc
          THEN /\ LinkCommit(opened)
               /\ lkOp' = "open_serial_link"
               /\ lkCalls' = <<"open_serial_link">>
               /\ inShown' = <<"Open Serial Error">>
               /\ inButtonConn' = TRUE
               /\ inReport' = <<>>
          ELSE /\ LinkCommit(link_close(opened.serial))
               /\ lkOp' = "close_serial_link"
               /\ lkCalls' = <<"open_serial_link", "close_serial_link">>
               /\ IF loop.raised
                  THEN /\ inShown' = <<"Wi-Fi Connect Error">>
                       /\ inButtonConn' = TRUE
                       /\ inReport' = <<>>
                  ELSE /\ inShown' = <<"UPIP Result">>
                       /\ inReport' = loop.result
                       /\ UNCHANGED inButtonConn
    /\ UNCHANGED <<lkClass, inText, inReplies, inEnv, notInstall>>

(***************************************************************************)
(* ESP32PackagesWidget: the Wi-Fi area. scan is the slot of                *)
(* button_scan.clicked, connect the slot of button_conn.toggled, and       *)
(* wifi_info_changed the slot of the two text fields. A button that is     *)
(* disabled cannot be pressed.                                             *)
(***************************************************************************)
\* open_serial_link, one command batch, close_serial_link, without the close
\* after a failed batch.
widget_io_leaky(c, in, raises) ==
    LET opened == link_open(c, in) IN
    IF opened.exc # NoExc
    THEN [link |-> opened, calls |-> <<"open_serial_link">>, result |-> "open_error"]
    ELSE IF raises
         THEN [link |-> opened, calls |-> <<"open_serial_link">>, result |-> "io_error"]
         ELSE [link |-> link_close(opened.serial),
               calls |-> <<"open_serial_link", "close_serial_link">>,
               result |-> "ok"]

\* What scan and connect do with the link: find_device and open_serial_link
\* in one try block, sbfs.send_cmd in the next, close_serial_link in its
\* IOError handler and at the end. raises: send_cmd raises IOError.
widget_io(c, in, raises) ==
    LET opened == link_open(c, in) IN
    IF opened.exc # NoExc
    THEN [link |-> opened, calls |-> <<"open_serial_link">>, result |-> "open_error"]
    ELSE [link |-> link_close(opened.serial),
          calls |-> <<"open_serial_link", "close_serial_link">>,
          result |-> IF raises THEN "io_error" ELSE "ok"]

WidgetIoCommit(in, io) ==
    /\ LinkCommit(io.link)
    /\ lkIn' = in
    /\ lkOp' = io.calls[Len(io.calls)]
    /\ lkCalls' = io.calls
    /\ wfResult' = io.result

\* The user edits the SSID or the password: wifi_info_changed.
WifiInfoChanged ==
    /\ wfFields
    /\ \E s \in BOOLEAN, p \in BOOLEAN :
          /\ <<s, p>> # <<wfSsid, wfPwd>>
          /\ wfSsid' = s
          /\ wfPwd' = p
          /\ inButtonConn' = (s /\ p)
    /\ wfOp' = "wifi_info_changed"
    /\ UNCHANGED <<wfChecked, wfLabel, wfFields, wfScan, wfInstall, wfResult,
                   inPc, inText, inReplies, inEnv, inReport, inShown,
                   lkVars, modeVars, notWifi>>

\* ESP32PackagesWidget.scan. list_ssid.clear() and addItem change the
\* current text, which runs wifi_info_changed; target.initialize() is the
\* mode's, with the mode's link; found: the board reports access points.
WifiScan ==
    /\ wfScan
    /\ \E dev \in BOOLEAN, open \in BOOLEAN, o \in InitializeOutcomes,
          in \in InstallEnvs, raises \in BOOLEAN, found \in BOOLEAN :
          LET t0 == initialize_open(Fresh, Env(dev, "ok", open, FALSE))
              t == IF t0.exc = "none" THEN initialize_rest(t0, o) ELSE t0
              io == widget_io(lkClass, in, raises)
              cleared == IF wfSsid THEN FALSE ELSE inButtonConn
          IN
          /\ readUntilThreads' = IF Rebooted(t)
                                 THEN readUntilThreads \cup {HandlerThread}
                                 ELSE readUntilThreads
          /\ IF t.exc # "none"
             THEN /\ Commit(run_except(t))
                  /\ wfResult' = "init_error"
                  /\ wfSsid' = FALSE
                  /\ inButtonConn' = cleared
                  /\ UNCHANGED lkVars
             ELSE /\ WidgetIoCommit(in, io)
                  /\ Commit(CASE io.result = "open_error" -> show_message(t, "no_device")
                               [] io.result = "io_error" -> show_message(t, "scan_error")
                               [] OTHER -> t)
                  /\ wfSsid' = (io.result = "ok" /\ found)
                  /\ inButtonConn' = IF io.result = "ok" /\ found THEN wfPwd ELSE cleared
    /\ wfOp' = "scan"
    /\ UNCHANGED <<wfChecked, wfLabel, wfFields, wfScan, wfInstall, wfPwd,
                   lkClass, inPc, inText, inReplies, inEnv, inReport, inShown,
                   pc, op, notWifi>>

\* A press on button_conn: the button toggles and connect(checked) runs.
WifiConnect ==
    /\ inButtonConn
    /\ wfChecked' = ~wfChecked
    /\ \E in \in InstallEnvs, raises \in BOOLEAN :
          LET io == widget_io(lkClass, in, raises) IN
          /\ WidgetIoCommit(in, io)
          /\ CASE io.result = "open_error" ->
                     /\ inShown' = <<"Open Serial Error">>
                     /\ inButtonConn' = TRUE
                     /\ UNCHANGED <<wfLabel, wfFields, wfScan, wfInstall>>
               [] io.result = "io_error" ->
                     /\ inShown' = <<"Wi-Fi Connect Error">>
                     /\ inButtonConn' = TRUE
                     /\ UNCHANGED <<wfLabel, wfFields, wfScan, wfInstall>>
               [] OTHER ->
                     /\ inShown' = <<>>
                     /\ IF wfChecked'
                        THEN /\ inButtonConn' = TRUE
                             /\ wfLabel' = "Disconnect"
                             /\ wfFields' = FALSE
                             /\ wfScan' = FALSE
                             /\ wfInstall' = TRUE
                        ELSE /\ inButtonConn' = FALSE
                             /\ wfLabel' = "Connect"
                             /\ wfFields' = TRUE
                             /\ wfScan' = TRUE
                             /\ wfInstall' = FALSE
    /\ wfOp' = IF wfChecked' THEN "connect" ELSE "disconnect"
    /\ UNCHANGED <<wfSsid, wfPwd, lkClass, inPc, inText, inReplies, inEnv,
                   inReport, modeVars, notWifi>>

\* What a press on the install button meets: every command answered, the
\* second command raising IOError, or a port that does not open.
WidgetInstallCases ==
    LET answered == [k \in 1..MaxLines |-> SendCmdReturns(<<"O", "K">>)]
        opens == CHOOSE in \in InstallEnvs : in.openOk /\ in.dtrOk
        fails == CHOOSE in \in InstallEnvs : in.port # "None" /\ ~in.openOk
    IN { [replies |-> answered, env |-> opens],
         [replies |-> [answered EXCEPT ![2] = SendCmdRaises], env |-> opens],
         [replies |-> answered, env |-> fails] }

\* A press on button_inst, which is inside groupbox_install.
WifiInstall == wfInstall /\ NonEmptyLines(inText) # <<>> /\ Install

(***************************************************************************)
(* PackageDialog: setup starts the removals, which go on one by one from a *)
(* single-shot timer, and the first pip process; each finished signal      *)
(* starts the next pip process. Both chains run on the UI thread, one      *)
(* callback at a time, in any interleaving. Reading the RECORD file of a   *)
(* package is taken to succeed.                                            *)
(***************************************************************************)
PackageNames == 1..MaxPackages

\* Lists of distinct package names.
PackageLists ==
    {l \in UNION {[1..n -> PackageNames] : n \in 0..MaxPackages} :
        \A i, j \in DOMAIN l : i # j => l[i] # l[j]}

\* What module_dir holds for a package name.
DiskKinds == {"none", "dist-info", "egg-info"}

\* The state of the dialog as a record, for the methods below.
Dialog ==
    [to_add |-> to_add, module_dir |-> module_dir, pkg_dirs |-> pkg_dirs,
     process |-> process, timer |-> pdTimer, text_area |-> text_area,
     ok_enabled |-> ok_enabled, pip_starts |-> pip_starts,
     pip_exits |-> pip_exits]

\* PackageDialog.append_data
append_data(d, msg) == [d EXCEPT !.text_area = Append(@, msg)]

\* PackageDialog.end_state
end_state(d) == [append_data(d, "FINISHED") EXCEPT !.ok_enabled = TRUE]

\* PackageDialog.run_pip: to_add.pop() takes the last name.
run_pip(d) ==
    [d EXCEPT !.to_add = SubSeq(@, 1, Len(@) - 1), !.process = "running",
              !.pip_starts = Append(@, d.to_add[Len(d.to_add)])]

\* PackageDialog.remove_packages
remove_packages(d, removing) ==
    LET found == SelectSeq(removing, LAMBDA pkg : d.module_dir[pkg] # "none") IN
    [d EXCEPT !.pkg_dirs = found, !.timer = (found # <<>>)]

\* PackageDialog.remove_package, the slot of the single-shot timer;
\* popitem takes the entry inserted last.
remove_package(d) ==
    IF d.pkg_dirs # <<>>
    THEN LET package == d.pkg_dirs[Len(d.pkg_dirs)] IN
         append_data([d EXCEPT !.pkg_dirs = SubSeq(@, 1, Len(@) - 1),
                               !.module_dir[package] = "none",
                               !.timer = TRUE],
                     "Removed")
    ELSE LET d1 == [d EXCEPT !.timer = FALSE] IN
         IF ~(d1.to_add # <<>> \/ d1.process # "None") THEN end_state(d1) ELSE d1

\* finished that starts no further pip process.
finished_without_next(d) ==
    LET d1 == [d EXCEPT !.pip_exits = @ + 1, !.process = "exited"] IN
    IF d1.pkg_dirs = <<>> THEN end_state(d1) ELSE d1

\* PackageDialog.finished, the slot of the process's finished signal; the
\* QProcess object stays in self.process after the last package.
finished(d) ==
    LET d0 == [d EXCEPT !.pip_exits = @ + 1] IN
    IF d0.to_add # <<>>
    THEN run_pip([d0 EXCEPT !.process = "None"])
    ELSE LET d1 == [d0 EXCEPT !.process = "exited"] IN
         IF d1.pkg_dirs = <<>> THEN end_state(d1) ELSE d1

\* The part of PackageDialog.setup that starts the work.
setup(d, removing) ==
    LET d0 == [d EXCEPT !.pkg_dirs = <<>>, !.process = "None"]
        d1 == IF removing # <<>> THEN remove_packages(d0, removing) ELSE d0
    IN IF d1.to_add # <<>> THEN run_pip(d1) ELSE d1

DialogCommit(d) ==
    /\ to_add' = d.to_add
    /\ module_dir' = d.module_dir
    /\ pkg_dirs' = d.pkg_dirs
    /\ process' = d.process
    /\ pdTimer' = d.timer
    /\ text_area' = d.text_area
    /\ ok_enabled' = d.ok_enabled
    /\ pip_starts' = d.pip_starts
    /\ pip_exits' = d.pip_exits

Setup ==
    /\ pdPc = "new"
    /\ pdPc' = "setup"
    /\ DialogCommit(setup(Dialog, to_remove))
    /\ UNCHANGED <<to_remove, to_add_given, notPackages>>

RemovePackageTimeout ==
    /\ pdPc = "setup"
    /\ pdTimer
    /\ DialogCommit(remove_package(Dialog))
    /\ UNCHANGED <<pdPc, to_remove, to_add_given, notPackages>>

ProcessFinished ==
    /\ pdPc = "setup"
    /\ process = "running"
    /\ DialogCommit(finished(Dialog))
    /\ UNCHANGED <<pdPc, to_remove, to_add_given, notPackages>>

(***************************************************************************)
(* Specifications                                                          *)
(***************************************************************************)
InitMode ==
    /\ repl = "None"
    /\ plotter = "None"
    /\ fs = "None"
    /\ file_manager = "unset"
    /\ file_manager_thread = "unset"
    /\ timer = FALSE
    /\ buttons = [k \in ButtonNames |-> TRUE]
    /\ serial = "unset"
    /\ pc = "idle"
    /\ op = "none"
    /\ shown = <<>>
    /\ lookups = 0
    /\ trace = <<>>
    /\ escaped = "none"
    /\ readUntilThreads = {}

InitNoFM ==
    /\ fmKind = "none"
    /\ fmSerial = "unset"
    /\ fmQueue = <<>>
    /\ fmRunning = {}
    /\ fmNext = 0
    /\ fmLog = EmptyLog

InitNoReboot ==
    /\ rbEntry = "reboot"
    /\ rbPc = 1
    /\ rbStatus = "idle"
    /\ written = <<>>
    /\ reads = <<>>
    /\ buff = <<>>
    /\ rx = <<>>
    /\ devOut = <<>>
    /\ ruReturn = NoReturn
    /\ rbDevice = "any"

InitNoLocator ==
    /\ valid_boards = StuduinoBitBoards
    /\ available_ports = <<>>
    /\ os_name = "posix"
    /\ fdResult = NotCalled
    /\ ppResult = [name |-> "", out |-> Returned(<<>>)]

\* A freshly constructed object: neither __init__ assigns self.serial.
InitLinkObject ==
    /\ lkSerial = "unset"
    /\ lkBaud = "unset"
    /\ lkOp = "none"
    /\ lkIn = NoInput
    /\ lkLog = <<>>
    /\ lkExc = NoExc
    /\ lkCalls = <<>>

InitNoLink == lkClass = "StuduinoBitMode" /\ InitLinkObject

\* The installer widget after setup, before the install button is clicked;
\* connect has not disabled button_conn.
InitInstallWidget ==
    /\ inPc = "idle"
    /\ inReport = <<>>
    /\ inShown = <<>>
    /\ inButtonConn = TRUE

InitNoInstall ==
    /\ InitInstallWidget
    /\ inText = <<>>
    /\ inReplies = [k \in 1..MaxLines |-> SendCmdRaises]
    /\ inEnv = NoInput

\* A PackageDialog that has been constructed; setup has not run.
InitDialog ==
    /\ pdPc = "new"
    /\ pkg_dirs = <<>>
    /\ process = "None"
    /\ pdTimer = FALSE
    /\ text_area = <<>>
    /\ ok_enabled = FALSE
    /\ pip_starts = <<>>
    /\ pip_exits = 0

InitNoPackages ==
    /\ InitDialog
    /\ to_remove = <<>>
    /\ to_add = <<>>
    /\ to_add_given = to_add
    /\ module_dir = [p \in PackageNames |-> "none"]

\* The Wi-Fi area after setup.
InitWifi ==
    /\ wfChecked = FALSE
    /\ wfLabel = "Connect"
    /\ wfFields = TRUE
    /\ wfScan = TRUE
    /\ wfInstall = FALSE
    /\ wfSsid = FALSE
    /\ wfPwd = FALSE
    /\ wfOp = "none"
    /\ wfResult = "ok"

(***************************************************************************)
(* SBFirmwareFlasherWidget (dialogs.py): the "Write firmware" button, the  *)
(* esptool processes it starts and the callbacks connected to them.       *)
(***************************************************************************)

\* QProcess objects the widget creates in one run; each press of the button
\* creates one.
MaxProcs == 2

\* Chunks of output one esptool process writes.
MaxOutput == 2

Procs == 1..MaxProcs

\* The values of self.process.
Unset == [kind |-> "unset", id |-> 0]
None == [kind |-> "None", id |-> 0]
Process(p) == [kind |-> "QProcess", id |-> p]

\* The widget's attributes and the processes it has created, as one value
\* the methods work on.
Flasher ==
    [process |-> fwProcess, commands |-> fwCommands, procs |-> fwProcs,
     unread |-> fwUnread, timers |-> fwTimers, log |-> fwLog, exc |-> fwExc]

\* The esptool processes that are alive.
RunningProcs(w) == {p \in Procs : w.procs[p] = "running"}

\* run_esptool: a new QProcess, its four signals connected, the first command
\* popped, logged and started.  The QProcess is a child of the widget, so the
\* one self.process referred to before stays alive and connected.
run_esptool(w) ==
    LET p == CHOOSE q \in Procs :
                 /\ w.procs[q] = "none"
                 /\ \A r \in Procs : w.procs[r] = "none" => q <= r
    IN [w EXCEPT !.process = Process(p),
                 !.procs[p] = "running",
                 !.commands = Tail(@),
                 !.log = Append(@, "command")]

\* update_firmware: one write_flash command, then run_esptool.
update_firmware(w) == run_esptool([w EXCEPT !.commands = <<"write_flash">>])

\* esptool_error: logs the error and forgets the process.
esptool_error(w) ==
    [w EXCEPT !.log = Append(@, "Error occured"), !.process = None]

\* esptool_finished: aborts on a failure, otherwise runs the next command if
\* one is left.
esptool_finished(w, exitCode, exitStatus) ==
    IF exitCode # 0 \/ exitStatus = "CrashExit"
    THEN [w EXCEPT !.log = Append(@, "Error on flashing. Aborting.")]
    ELSE IF w.commands # <<>>
         THEN run_esptool([w EXCEPT !.process = None])
         ELSE w

\* read_process: reads all of self.process; data read is appended to the log
\* when it decodes, and the method schedules itself again.  self.process being
\* None, readAll raises AttributeError.
read_process(w, decodes) ==
    IF w.process = None
    THEN [w EXCEPT !.exc = "AttributeError"]
    ELSE IF w.unread[w.process.id] > 0
         THEN [w EXCEPT !.unread[w.process.id] = 0,
                        !.log = IF decodes THEN Append(@, "data") ELSE @,
                        !.timers = @ + 1]
         ELSE w

FlasherCommit(w) ==
    /\ fwProcess' = w.process
    /\ fwCommands' = w.commands
    /\ fwProcs' = w.procs
    /\ fwUnread' = w.unread
    /\ fwTimers' = w.timers
    /\ fwLog' = w.log
    /\ fwExc' = w.exc

\* txtFolder.textChanged: firmware_path_changed enables the button exactly
\* when the path is not empty.
FirmwarePathChanged ==
    \E nonEmpty \in BOOLEAN :
        /\ fwExec' = nonEmpty
        /\ fwOp' = "firmware_path_changed"
        /\ UNCHANGED <<fwProcess, fwCommands, fwProcs, fwUnread, fwEmitted,
                       fwTimers, fwLog, fwExc>>
        /\ UNCHANGED notFlasher

\* btnExec.clicked: the button is pressed whenever it is enabled.
UpdateFirmware ==
    /\ fwExec
    /\ \E q \in Procs : fwProcs[q] = "none"
    /\ FlasherCommit(update_firmware(Flasher))
    /\ fwOp' = "update_firmware"
    /\ UNCHANGED <<fwExec, fwEmitted>>
    /\ UNCHANGED notFlasher

\* A live process writes output; its readyRead signal runs read_process.
ProcessOutput ==
    \E p \in Procs, decodes \in BOOLEAN :
        /\ fwProcs[p] = "running"
        /\ fwEmitted[p] < MaxOutput
        /\ fwEmitted' = [fwEmitted EXCEPT ![p] = @ + 1]
        /\ FlasherCommit(read_process(
               [Flasher EXCEPT !.unread[p] = @ + 1], decodes))
        /\ fwOp' = "read_process"
        /\ UNCHANGED fwExec
        /\ UNCHANGED notFlasher

\* A single-shot timer set by read_process expires.
ReadProcessTimeout ==
    \E decodes \in BOOLEAN :
        /\ fwTimers > 0
        /\ FlasherCommit(read_process(
               [Flasher EXCEPT !.timers = @ - 1], decodes))
        /\ fwOp' = "read_process"
        /\ UNCHANGED <<fwExec, fwEmitted>>
        /\ UNCHANGED notFlasher

\* errorOccurred of a process: it failed to start (no finished signal
\* follows) or it crashed (finished follows with CrashExit).
EsptoolError ==
    \E p \in Procs, error \in {"FailedToStart", "Crashed"} :
        /\ fwProcs[p] = "running"
        /\ error = "FailedToStart" => fwEmitted[p] = 0
        /\ FlasherCommit(esptool_error(
               [Flasher EXCEPT !.procs[p] =
                    IF error = "Crashed" THEN "crashed" ELSE "ended"]))
        /\ fwOp' = "esptool_error"
        /\ UNCHANGED <<fwExec, fwEmitted>>
        /\ UNCHANGED notFlasher

\* finished of a process: a normal exit with either exit code, or the exit
\* of a process that crashed.
EsptoolFinished ==
    \E p \in Procs, exitCode \in {0, 1} :
        /\ fwProcs[p] \in {"running", "crashed"}
        /\ FlasherCommit(esptool_finished(
               [Flasher EXCEPT !.procs[p] = "ended"], exitCode,
               IF fwProcs[p] = "crashed" THEN "CrashExit" ELSE "NormalExit"))
        /\ fwOp' = "esptool_finished"
        /\ UNCHANGED <<fwExec, fwEmitted>>
        /\ UNCHANGED notFlasher

\* The widget after setup, esptool being installed.
InitFlasher ==
    /\ fwExec = FALSE
    /\ fwProcess = Unset
    /\ fwCommands = <<>>
    /\ fwProcs = [p \in Procs |-> "none"]
    /\ fwUnread = [p \in Procs |-> 0]
    /\ fwEmitted = [p \in Procs |-> 0]
    /\ fwTimers = 0
    /\ fwLog = <<>>
    /\ fwExc = "None"
    /\ fwOp = "none"

InitNoWidgets ==
    InitNoLink /\ InitNoInstall /\ InitNoPackages /\ InitWifi /\ InitFlasher

Init == InitMode /\ InitNoFM /\ InitNoReboot /\ InitNoLocator /\ InitNoWidgets

Next ==
    \/ ToggleRepl
    \/ TogglePlotter
    \/ ToggleFiles
    \/ OnDataFlood
    \/ IsConnecting
    \/ FlashBegin
    \/ FlashFinish
    \/ RunBegin
    \/ RunFinish
    \/ FMBegin
    \/ FMOnStart

Spec == Init /\ [][Next]_vars

\* A file manager of either class, constructed and moved to its started thread.
InitFM ==
    /\ InitMode
    /\ fmKind \in {"FileManager", "StuduinoBitFileManager"}
    /\ fmSerial = "unset"
    /\ fmQueue = <<OnStartJob>>
    /\ fmRunning = {}
    /\ fmNext = 1
    /\ fmLog = StartLog
    /\ InitNoReboot
    /\ InitNoLocator
    /\ InitNoWidgets

NextFM ==
    \/ Request
    \/ FMBegin
    \/ FMOnStart
    \/ FMList
    \/ FMGet
    \/ FMPut
    \/ FMDelete

SpecFM == InitFM /\ [][NextFM]_vars

\* reboot or reboot_and_prompt called on an open serial link, on which a
\* line end of earlier output may still wait to be read.
InitReboot ==
    /\ InitMode
    /\ InitNoFM
    /\ rbEntry \in {"reboot", "reboot_and_prompt"}
    /\ rbPc = 1
    /\ rbStatus = "running"
    /\ written = <<>>
    /\ reads = <<>>
    /\ buff = <<>>
    /\ rx \in {<<>>, <<"\n">>}
    /\ devOut = <<>>
    /\ ruReturn = NoReturn
    /\ rbDevice \in {"any", "scripted"}
    /\ InitNoLocator
    /\ InitNoWidgets

NextReboot ==
    \/ RbWrite
    \/ RbSleep
    \/ ReadUntilCall
    \/ ReadUntilData
    \/ ReadUntilTimeout
    \/ Deliver
    \/ Chatter

SpecReboot == InitReboot /\ [][NextReboot]_vars

\* The calling thread keeps running, bytes under way arrive, and a wait that
\* stays without data ends in the timeout.
FairReboot ==
    /\ WF_vars(RbWrite)
    /\ WF_vars(RbSleep)
    /\ WF_vars(ReadUntilCall)
    /\ WF_vars(ReadUntilData)
    /\ WF_vars(ReadUntilTimeout)
    /\ WF_vars(Deliver)

SpecRebootFair == InitReboot /\ [][NextReboot]_vars /\ FairReboot

\* find_device and port_path called for any board table, any scan of the
\* serial ports and any platform.
InitLocator ==
    /\ InitMode
    /\ InitNoFM
    /\ InitNoReboot
    /\ valid_boards \in BoardTables
    /\ available_ports \in Scans
    /\ os_name \in OsNames
    /\ fdResult = NotCalled
    /\ ppResult = [name |-> "", out |-> Returned(<<>>)]
    /\ InitNoWidgets

NextLocator ==
    \/ FindDeviceCall
    \/ PortPathCall

SpecLocator == InitLocator /\ [][NextLocator]_vars

\* Any sequence of open_serial_link and close_serial_link calls on a fresh
\* object of either class.
InitLink ==
    /\ InitMode
    /\ InitNoFM
    /\ InitNoReboot
    /\ InitNoLocator
    /\ lkClass \in LinkClasses
    /\ InitLinkObject
    /\ InitNoInstall
    /\ InitNoPackages
    /\ InitWifi
    /\ InitFlasher

NextLink ==
    \/ OpenSerialLink
    \/ CloseSerialLink

SpecLink == InitLink /\ [][NextLink]_vars

\* One click on the install button, for every text, every reply of the board
\* and every way the open can go.
InitInstall ==
    /\ InitMode
    /\ InitNoFM
    /\ InitNoReboot
    /\ InitNoLocator
    /\ lkClass = "ESP32PackagesWidget"
    /\ InitLinkObject
    /\ InitInstallWidget
    /\ inText \in Texts
    /\ inReplies \in [1..MaxLines -> SendCmdReplies]
    /\ inEnv \in InstallEnvs
    /\ InitNoPackages
    /\ InitWifi
    /\ InitFlasher

NextInstall == Install

SpecInstall == InitInstall /\ [][NextInstall]_vars

\* A package dialog set up with any lists to_remove and to_add over any
\* contents of module_dir, then its callbacks in any order.
InitPackages ==
    /\ InitMode
    /\ InitNoFM
    /\ InitNoReboot
    /\ InitNoLocator
    /\ InitNoLink
    /\ InitNoInstall
    /\ InitWifi
    /\ InitFlasher
    /\ InitDialog
    /\ to_remove \in PackageLists
    /\ to_add \in PackageLists
    /\ to_add_given = to_add
    /\ module_dir \in [PackageNames -> DiskKinds]

NextPackages ==
    \/ Setup
    \/ RemovePackageTimeout
    \/ ProcessFinished

SpecPackages == InitPackages /\ [][NextPackages]_vars

\* The ESP32 package widget after setup: the user edits the Wi-Fi fields and
\* presses the scan, connect and install buttons in any order in which they
\* are enabled.
InitWidget ==
    /\ InitMode
    /\ InitNoFM
    /\ InitNoReboot
    /\ InitNoLocator
    /\ InitNoPackages
    /\ lkClass = "ESP32PackagesWidget"
    /\ InitLinkObject
    /\ InitWifi
    /\ InitFlasher
    /\ inPc = "idle"
    /\ inReport = <<>>
    /\ inShown = <<>>
    /\ inButtonConn = FALSE
    /\ inText = <<"urequests", "", "umqtt">>
    /\ \E c \in WidgetInstallCases : inReplies = c.replies /\ inEnv = c.env

NextWidget ==
    \/ WifiInfoChanged
    \/ WifiScan
    \/ WifiConnect
    \/ WifiInstall

SpecWidget == InitWidget /\ [][NextWidget]_vars

\* The firmware flasher after setup: the user edits the path and presses
\* "Write firmware" whenever it is enabled, and the processes write, fail and
\* finish in any order.
InitFlash ==
    /\ InitMode
    /\ InitNoFM
    /\ InitNoReboot
    /\ InitNoLocator
    /\ InitNoWidgets

NextFlasher ==
    \/ FirmwarePathChanged
    \/ UpdateFirmware
    \/ ProcessOutput
    \/ ReadProcessTimeout
    \/ EsptoolError
    \/ EsptoolFinished

SpecFlasher == InitFlash /\ [][NextFlasher]_vars

(***************************************************************************)
(* Properties of the mode orchestrator (Spec)                              *)
(***************************************************************************)

\* C1: after any sequence of handler calls the filesystem pane (fs is not
\* None) is never active at the same time as the REPL or the plotter.
C1_FsExcludesReplAndPlotter ==
    fs # "None" => ~(Truthy(repl) \/ Truthy(plotter))

\* C2: toggle_files called while the REPL is active changes nothing of the
\* mode (REPL, plotter, fs, file manager, worker thread, poll timer, buttons,
\* serial link) and shows exactly one notification, the "cannot work at the
\* same time" one.
C2_ToggleFilesRejectedUnderRepl ==
    [][(ToggleFiles /\ Truthy(repl)) =>
          /\ UNCHANGED <<repl, plotter, fs, file_manager, file_manager_thread,
                         timer, buttons, serial, pc, fmVars>>
          /\ shown' = <<"fs_repl_conflict">>]_vars

C2_Witness ==
    /\ op = "toggle_files"
    /\ Truthy(repl)
    /\ fs = "None"
    /\ shown = <<"fs_repl_conflict">>

\* C3: toggle_repl or toggle_plotter called while the filesystem pane is
\* active is rejected: exactly one notification, repl, plotter, fs, the poll
\* timer and the buttons unchanged, and no device lookup made.
C3_TogglesRejectedUnderFs ==
    [][((ToggleRepl \/ TogglePlotter) /\ fs # "None") =>
          /\ UNCHANGED <<repl, plotter, fs, timer, buttons, file_manager,
                         file_manager_thread, serial, pc, fmVars>>
          /\ shown' \in {<<"repl_fs_conflict">>, <<"plotter_fs_conflict">>}
          /\ (op' = "toggle_repl" => shown' = <<"repl_fs_conflict">>)
          /\ (op' = "toggle_plotter" => shown' = <<"plotter_fs_conflict">>)
          /\ lookups' = 0]_vars

C3_Witness ==
    /\ op = "toggle_plotter"
    /\ fs # "None"
    /\ shown = <<"plotter_fs_conflict">>
    /\ lookups = 0

\* C4: at no reachable state do two holders (the mode's own serial link, the
\* file manager's session, an active REPL or plotter consumer) have the
\* device's port open at once.
C4_OnePortHolder == Cardinality(Holders) <= 1

(***************************************************************************)
(* Properties of the file manager (SpecFM)                                 *)
(***************************************************************************)
SuccessSignal(o) ==
    CASE o \in {"on_start", "ls", "tree"} -> "on_list_files"
      [] o = "get" -> "on_get_file"
      [] o = "put" -> "on_put_file"
      [] OTHER -> "on_delete_file"

FailSignal(o) ==
    CASE o \in {"on_start", "ls", "tree"} -> "on_list_fail"
      [] o = "get" -> "on_get_fail"
      [] o = "put" -> "on_put_fail"
      [] OTHER -> "on_delete_fail"

Succeeded(i) ==
    fmLog[i].done /\ fmLog[i].out # <<>>
      /\ \A k \in 1..Len(fmLog[i].out) :
            fmLog[i].out[k].sig = SuccessSignal(fmLog[i].job.op)

Failed(i) ==
    fmLog[i].done /\ fmLog[i].out # <<>>
      /\ \A k \in 1..Len(fmLog[i].out) :
            fmLog[i].out[k].sig = FailSignal(fmLog[i].job.op)

\* C5: every invocation of on_start, ls/tree, get, put, delete emits exactly
\* one notification, the operation's success signal or its failure signal,
\* whether the device primitive succeeds or raises; nothing is emitted for
\* an operation before it has run.
C5_ExactlyOneNotification ==
    \A i \in JobIds :
        /\ fmLog[i].done =>
              /\ Len(fmLog[i].out) = 1
              /\ fmLog[i].out[1].sig \in {SuccessSignal(fmLog[i].job.op),
                                          FailSignal(fmLog[i].job.op)}
              /\ (fmLog[i].raised => fmLog[i].out[1].sig = FailSignal(fmLog[i].job.op))
        /\ ~fmLog[i].done => fmLog[i].out = <<>>

C5_Witness ==
    \E i, j \in JobIds :
        /\ fmLog[i].job.op = "get" /\ fmLog[i].raised /\ Failed(i)
        /\ fmLog[j].job.op = "put" /\ ~fmLog[j].raised /\ Succeeded(j)

\* C6: a get whose device primitive raises emits on_get_fail carrying exactly
\* device_filename, does not emit on_get_file, and raises nothing itself.
C6_GetFailureCarriesDeviceFilename ==
    \A i \in JobIds :
        (fmLog[i].done /\ fmLog[i].job.op = "get" /\ fmLog[i].raised) =>
            /\ fmLog[i].out = <<Sig("on_get_fail", fmLog[i].job.dev)>>
            /\ ~fmLog[i].escaped

C6_Witness ==
    \E i \in JobIds :
        /\ fmLog[i].done /\ fmLog[i].job.op = "get" /\ fmLog[i].raised
        /\ fmLog[0].opened
        /\ fmLog[i].out = <<Sig("on_get_fail", <<"usr", "usr1.py">>)>>

\* C7: when on_start fails, opening the session or listing the files, it
\* emits the list-failure notification and no list-success one, and no
\* exception leaves it.
C7_OnStartFailureIsListFail ==
    (fmLog[0].done /\ fmLog[0].raised) =>
        /\ fmLog[0].out = <<Sig("on_list_fail", <<>>)>>
        /\ ~fmLog[0].escaped

\* on_start failed while opening the session.
C7_Witness ==
    /\ fmLog[0].done
    /\ fmLog[0].raised
    /\ ~fmLog[0].opened
    /\ fmSerial = "unset"
    /\ fmLog[0].out = <<Sig("on_list_fail", <<>>)>>

\* C8: a failed get, put or delete does not disable the file manager: once
\* on_start has opened the session, a later operation whose device primitive
\* succeeds emits its success notification. If on_start failed to open the
\* session, every later operation emits its failure notification only.
C8_FailureScopedToOperation ==
    /\ \A i, j \in JobIds :
          (/\ fmLog[0].done /\ fmLog[0].opened
           /\ 0 < i /\ i < j
           /\ fmLog[i].job.op \in {"get", "put", "delete"} /\ Failed(i)
           /\ fmLog[j].done /\ ~fmLog[j].raised)
          => Succeeded(j)
    /\ \A j \in JobIds :
          (fmLog[0].done /\ ~fmLog[0].opened /\ 0 < j /\ fmLog[j].done)
          => Failed(j)

C8_Witness ==
    \E i, j \in JobIds :
        /\ fmLog[0].opened
        /\ 0 < i /\ i < j
        /\ fmLog[i].job.op = "delete" /\ Failed(i)
        /\ fmLog[j].job.op = "get" /\ Succeeded(j)

\* a later operation after on_start failed to open the session
C8_WitnessNoSession ==
    \E j \in JobIds :
        fmLog[0].done /\ ~fmLog[0].opened /\ 0 < j /\ ~fmLog[j].raised /\ Failed(j)

C10_Expected == <<"0x03", "0x01", "import machine\r\n", "machine.reset()\r\n", "0x04">>

\* C10: reboot writes 0x03, then (only after the prompt has been read) 0x01,
\* 'import machine\r\n', 'machine.reset()\r\n', 0x04 in this order, and then
\* waits for the ready marker; nothing is skipped, repeated or reordered and
\* nothing after the first 0x03 is written before the prompt is observed.
C10_RebootWriteOrder ==
    LET n == IF Len(written) < 5 THEN Len(written) ELSE 5 IN
    /\ SubSeq(written, 1, n) = SubSeq(C10_Expected, 1, n)
    /\ (Len(written) >= 2 => (Len(reads) >= 1 /\ reads[1] = PROMPT))
    /\ (Len(reads) >= 1 => reads[1] = PROMPT)
    /\ (Len(reads) >= 2 => (Len(written) >= 5 /\ reads[2] = READY))
    /\ (rbStatus = "returned" => (Len(written) >= 5 /\ Len(reads) >= 2))
    /\ (rbEntry = "reboot" => Len(written) <= 5)
    /\ (Len(written) > 5 => Len(reads) >= 2)

C10_Witness ==
    /\ rbEntry = "reboot"
    /\ rbStatus = "returned"
    /\ written = C10_Expected
    /\ reads = <<PROMPT, READY>>

\* C11: with a board that answers the handshake's writes with the prompt, the
\* ready marker and the prompt again, reboot_and_prompt never fails and does
\* return; it has then written the five writes of reboot followed by the
\* interrupt 0x03 as its last write and read prompt, ready marker, prompt; the
\* trailing interrupt is written only after the ready marker was read, and the
\* last prompt is read only after that interrupt was written.
C11_ScriptedHandshakeCompletes ==
    (rbDevice = "scripted" /\ rbEntry = "reboot_and_prompt") =>
        /\ [](rbStatus # "TimeoutError")
        /\ <>(rbStatus = "returned")
        /\ [](rbStatus = "returned" =>
                 /\ written = C10_Expected \o <<CTRL_C>>
                 /\ reads = <<PROMPT, READY, PROMPT>>)
        /\ [](Len(written) = 6 => (Len(reads) >= 2 /\ reads[2] = READY))
        /\ [](Len(reads) = 3 => (Len(written) = 6 /\ written[6] = CTRL_C))

C11_Witness ==
    /\ rbDevice = "scripted"
    /\ rbEntry = "reboot_and_prompt"
    /\ rbStatus = "returned"
    /\ written[Len(written)] = CTRL_C
    /\ reads = <<PROMPT, READY, PROMPT>>

\* The wait for the ready marker is in progress.
AwaitingReady == rbStatus = "reading" /\ Step.token = READY

\* After the TimeoutError nothing is written and nothing runs again, and the
\* trailing interrupt is written only when the ready marker was read.
C12_NothingAfterTimeout ==
    /\ [][rbStatus = "TimeoutError" =>
            UNCHANGED <<written, rbStatus, rbPc, reads>>]_vars
    /\ [](rbStatus = "TimeoutError" /\ Len(reads) < 2 => Len(written) <= 5)
    /\ [](Len(written) > 5 => (Len(reads) >= 2 /\ reads[2] = READY))

\* C12: when the board never emits the ready marker, the handshake fails with
\* TimeoutError (the wait for the marker ends, and not by finding it), and
\* after the timeout nothing further is written: no trailing interrupt, no
\* second attempt.
C12_NoReadyMarkerFails ==
    /\ [](AwaitingReady => <>(rbStatus = "TimeoutError" \/ Len(reads) >= 2))
    /\ C12_NothingAfterTimeout

\* C13: once read_until has found the token in what it read (in one read or
\* over several), it has returned its accumulated buffer, and that buffer
\* contains the token as a contiguous substring.
C13_ReturnsBufferWithToken ==
    ruReturn.kind # "unset" =>
        /\ ruReturn.kind = "bytes"
        /\ Contains(ruReturn.value, reads[Len(reads)])
        /\ (rbStatus \in {"running", "returned"} => ruReturn.value = buff)

\* C14: a read_until call whose token never arrives ends in TimeoutError,
\* however much other data arrives and however short the gaps between the
\* arrivals are: every wait in progress ends, by the token or by the timeout.
C14_ReadUntilEventuallyTimesOut ==
    \A n \in 0..2 :
        [](rbStatus = "reading" /\ Len(reads) = n =>
               <>(rbStatus = "TimeoutError" \/ Len(reads) > n))

\* C15: the blocking read_until never runs on the UI thread: whatever call
\* path reaches it (reboot, reboot_and_prompt, and through them toggle_flash,
\* initialize and run) runs on a worker thread.
C15_ReadUntilOffUiThread == "ui" \notin readUntilThreads

\* The positions of the scan whose port is of a board of the table, by its
\* (vendor, product) pair or by its vendor alone.
C16_Matching ==
    {i \in DOMAIN available_ports :
        \/ <<available_ports[i].vid, available_ports[i].pid>> \in valid_boards
        \/ <<available_ports[i].vid, "None">> \in valid_boards}

\* C16: for every board table and every ordered scan, find_device returns
\* the path (as port_path gives it) of the first port of the scan whose
\* (vendor, product) pair or (vendor, None) pair is in the table, with that
\* port's serial number, and it returns (None, None) exactly when no port of
\* the scan matches.
C16_FindDeviceFirstMatch ==
    fdResult # NotCalled =>
        /\ (fdResult = NonePair <=> C16_Matching = {})
        /\ C16_Matching # {} =>
              LET first == CHOOSE i \in C16_Matching :
                               \A j \in C16_Matching : i <= j
                  port == available_ports[first]
              IN
              /\ os_name = "posix" =>
                    fdResult = Pair(<<"/dev/", port.name>>, port.serial)
              /\ os_name = "nt" => fdResult = Pair(<<port.name>>, port.serial)
              /\ os_name \notin {"posix", "nt"} => fdResult.kind = "NotImplementedError"

\* A scan of two matching ports whose second also matches: the first wins; and
\* a vendor-only entry matched a port.
C16_Witness ==
    /\ fdResult.kind = "pair"
    /\ Cardinality(C16_Matching) = 2
    /\ fdResult.serial = available_ports[1].serial
    /\ \E i \in C16_Matching :
          <<available_ports[i].vid, available_ports[i].pid>> \notin valid_boards

\* C17: port_path turns a bare port name into '/dev/<name>' on a POSIX host,
\* returns it unchanged on Windows and raises NotImplementedError on any other
\* platform; with the board table {(0x20A0, 0x4269)} and the single scanned
\* port (0x20A0, 0x4269, 'ttyACM0') on POSIX, find_device returns
\* '/dev/ttyACM0'.
C17_PortPathByPlatform ==
    /\ ppResult.name # "" =>
          /\ os_name = "posix" =>
                ppResult.out = Returned(<<"/dev/", ppResult.name>>)
          /\ os_name = "nt" => ppResult.out = Returned(<<ppResult.name>>)
          /\ os_name \notin {"posix", "nt"} =>
                /\ ppResult.out.raised = "NotImplementedError"
                /\ ppResult.out.value = <<>>
    /\ ( /\ fdResult # NotCalled
         /\ valid_boards = {<<"0x20A0", "0x4269">>}
         /\ Len(available_ports) = 1
         /\ available_ports[1].vid = "0x20A0"
         /\ available_ports[1].pid = "0x4269"
         /\ available_ports[1].name = "ttyACM0"
         /\ os_name = "posix" )
       => fdResult.port = <<"/dev/", "ttyACM0">>

C17_Witness ==
    /\ valid_boards = StuduinoBitBoards
    /\ available_ports = <<Port("0x20A0", "0x4269", "ttyACM0", "SB0001")>>
    /\ os_name = "posix"
    /\ fdResult.kind = "pair"
    /\ ppResult.name = "ttyACM0"
    /\ ppResult.out.raised = "no"

\* The presence poll runs and finds no device.
PollFindsNoDevice ==
    IsConnecting /\ Commit(is_connecting(Fresh, Env(FALSE, "ok", FALSE, FALSE)))

\* C18: whenever the presence poll is_connecting runs and find_device reports
\* no device, on return the REPL and the plotter are both inactive, the poll
\* timer is stopped and the user has been shown the device-not-found
\* notification, from every state in which the poll can fire.
C18_PollForcesStop ==
    [][PollFindsNoDevice =>
          /\ ~Truthy(repl')
          /\ ~Truthy(plotter')
          /\ ~timer'
          /\ Len(shown') >= 1
          /\ shown'[Len(shown')] = "no_device"]_vars

\* The same without the plotter: which part of C18 fails.
C18_PollStopsReplAndTimer ==
    [][PollFindsNoDevice =>
          /\ ~Truthy(repl')
          /\ ~timer'
          /\ Len(shown') >= 1
          /\ shown'[Len(shown')] = "no_device"]_vars

\* C19: the presence-poll timer is active only while the REPL or the plotter
\* is active, in every state reached by toggle_repl, toggle_plotter,
\* toggle_files, run, on_data_flood and is_connecting.
C19_TimerOnlyWithReplOrPlotter == timer => (Truthy(repl) \/ Truthy(plotter))

\* No REPL, no plotter, no filesystem pane.
Idle == ~Truthy(repl) /\ ~Truthy(plotter) /\ fs = "None"

\* toggle_files is called and find_device finds no device.
FilesFindsNoDevice ==
    ToggleFiles /\ Commit(toggle_files(Fresh, Env(FALSE, "ok", FALSE, FALSE)))

\* C20: toggle_files called from Idle when find_device finds no device
\* notifies the view once and leaves the mode Idle: fs stays None, no file
\* manager and no worker thread is created or started, and the run, repl,
\* plotter and flash buttons are not disabled.
C20_FilesWithoutDeviceStaysIdle ==
    [][(Idle /\ FilesFindsNoDevice) =>
          /\ shown' = <<"no_device">>
          /\ lookups' = 1
          /\ Idle'
          /\ fs' = "None"
          /\ UNCHANGED <<repl, plotter, timer, file_manager, file_manager_thread>>
          /\ UNCHANGED fmVars
          /\ \A k \in {"run", "repl", "plotter", "flash_sb"} :
                buttons'[k] = buttons[k]]_vars

C20_Witness ==
    /\ op = "toggle_files"
    /\ shown = <<"no_device">>
    /\ Idle
    /\ file_manager = "unset"
    /\ file_manager_thread = "unset"
    /\ fmKind = "none"
    /\ \A k \in {"run", "repl", "plotter", "flash_sb"} : buttons[k]

\* toggle_repl is called and starting the REPL fails in the way f: no device
\* is found, or the view raises IOError, or the view raises something else.
ReplStartFails(f) ==
    /\ ToggleRepl
    /\ \E dev \in BOOLEAN, view \in Views :
          /\ \/ f = "no_device" /\ ~dev
             \/ f = "ioerror" /\ dev /\ view = "ioerror"
             \/ f = "error" /\ dev /\ view = "error"
          /\ Commit(toggle_repl(Fresh, Env(dev, view, FALSE, FALSE)))

\* The outcome the claim gives a failed start: a message, still idle, the
\* timer and the files and flash buttons as they were.
ReportedAndIdle ==
    /\ Len(shown') >= 1
    /\ Idle'
    /\ timer' = timer
    /\ buttons'["files_sb"] = buttons["files_sb"]
    /\ buttons'["flash_sb"] = buttons["flash_sb"]

\* C21: when starting the REPL from Idle fails, because no device is found or
\* because attaching the REPL to the view raises any exception, the failure
\* is reported to the user with a message and the mode stays Idle: repl not
\* active, the poll timer not started, files and flash buttons not disabled.
C21_ReplStartFailureReported ==
    [][(Idle /\ \E f \in {"no_device", "ioerror", "error"} : ReplStartFails(f))
          => ReportedAndIdle]_vars

\* The same for the two failures the code reports.
C21_LookupAndIOErrorReported ==
    [][(Idle /\ \E f \in {"no_device", "ioerror"} : ReplStartFails(f))
          => ReportedAndIdle]_vars

\* The names of the steps of the last toggle_flash / run call, in order.
StepNames == [i \in DOMAIN trace |-> trace[i].step]

\* Step a occurs in the trace, and before every occurrence of b.
Precedes(a, b) ==
    \A i \in DOMAIN trace :
        trace[i].step = b => \E j \in 1..(i - 1) : trace[j].step = a

\* C22: toggle_flash selects the slot, stages the editor buffer, opens the
\* serial session, runs the reboot handshake, uploads the staged file,
\* records the slot as boot target and reboots, in this order; the session
\* is opened only after the slot was selected and the buffer staged.
C22_FlashStepOrder ==
    op = "toggle_flash" =>
        /\ Precedes("select_slot", "open_serial_link")
        /\ Precedes("save_and_encode", "open_serial_link")
        /\ shown = <<"status_transfer_success">> =>
              StepNames = <<"select_slot", "save_and_encode", "open_serial_link",
                            "reboot_and_prompt", "upload", "record_slot",
                            "reboot", "close_serial_link">>

\* The order the code has: the session is opened first.
C22_OpenBeforeSlot ==
    op = "toggle_flash" =>
        /\ Precedes("open_serial_link", "select_slot")
        /\ shown = <<"status_transfer_success">> =>
              StepNames = <<"open_serial_link", "select_slot", "save_and_encode",
                            "reboot_and_prompt", "upload", "record_slot",
                            "reboot", "close_serial_link">>

\* toggle_flash has returned.
FlashReturned == op = "toggle_flash" /\ pc = "idle"

\* The error report of each step of toggle_flash.
C23_ReportOf(step) ==
    CASE step = "open_serial_link" -> "no_device"
      [] step \in {"select_slot", "save_and_encode"} -> "box_file_save_error"
      [] step = "reboot_and_prompt" -> "box_reboot_error"
      [] step = "upload" -> "box_upload_error"
      [] OTHER -> "box_restart_error"

\* C23: in toggle_flash a failing step (open, save, reboot, upload,
\* record-slot / restart) is the last step but the close, is reported by
\* exactly one error report, the one of that step, and on every return path
\* (success, failure, cancelled slot dialog) the serial link is not open.
C23_FlashFailureStopsAndCloses ==
    FlashReturned =>
        /\ serial # "open"
        /\ \A i \in DOMAIN trace :
              ~trace[i].ok =>
                  /\ \A j \in DOMAIN trace :
                        j > i => trace[j].step = "close_serial_link"
                  /\ shown = <<C23_ReportOf(trace[i].step)>>
        /\ (\A i \in DOMAIN trace : trace[i].ok) =>
              shown \in {<<>>, <<"status_transfer_success">>}

C23_Witness ==
    /\ FlashReturned
    /\ shown = <<"box_upload_error">>
    /\ StepNames = <<"open_serial_link", "select_slot", "save_and_encode",
                     "reboot_and_prompt", "upload", "close_serial_link">>
    /\ serial = "None"

(***************************************************************************)
(* C24-C26: open_serial_link and close_serial_link                         *)
(***************************************************************************)
OpenCalled == lkOp = "open_serial_link" /\ lkIn.port # "None"

\* C24: when the first open of the port fails, open_serial_link raises
\* IOError with a message that carries the port path, the port is not open
\* and nothing further was done to it.
C24_OpenFailureRaisesIOError ==
    (OpenCalled /\ ~lkIn.openOk) =>
        /\ lkExc = Exc("IOError", <<"Cannot connect to device on port ", lkIn.port>>)
        /\ lkSerial # "open"
        /\ lkLog[Len(lkLog)] = "open"

C24_Witness ==
    /\ OpenCalled
    /\ ~lkIn.openOk
    /\ lkIn.port = "COM3"
    /\ lkExc.type = "IOError"
    /\ lkClass = "ESP32PackagesWidget"

DtrFallbackLog ==
    <<"QSerialPort()", "setPortName", "open", "setDataTerminalReady(True)",
      "isDataTerminalReady", "close", "serial.Serial(port)", "pyser.dtr = True",
      "pyser.close()", "open", "setBaudRate(115200)">>

\* C25: when the port opens but DTR is not asserted, open_serial_link closes
\* the port, sets DTR through pyserial, closes that handle, reopens the port
\* and only then sets the baud rate to 115200, ending with the port open.
C25_DtrFallbackThenBaud ==
    (OpenCalled /\ lkIn.openOk /\ ~lkIn.dtrOk /\ lkIn.reopenOk) =>
        /\ lkLog = DtrFallbackLog
        /\ lkExc = NoExc
        /\ lkSerial = "open"
        /\ lkBaud = "115200"

\* C25, the part that holds: when DTR is asserted at once the baud rate is
\* set after the DTR check and the port ends open.
C25_DirectDtrThenBaud ==
    (OpenCalled /\ lkIn.openOk /\ lkIn.dtrOk) =>
        /\ lkLog = <<"QSerialPort()", "setPortName", "open",
                     "setDataTerminalReady(True)", "isDataTerminalReady",
                     "setBaudRate(115200)">>
        /\ lkSerial = "open"
        /\ lkBaud = "115200"

\* C26: close_serial_link raises nothing, does nothing when the link is
\* already closed or was never opened, and a second call right after it
\* would change nothing.
C26_CloseIdempotent ==
    [][CloseSerialLink =>
          /\ lkExc' = NoExc
          /\ (lkSerial \in {"unset", "None"} => lkSerial' = lkSerial /\ lkLog' = <<>>)
          /\ link_close(lkSerial').serial = lkSerial'
          /\ link_close(lkSerial').exc = NoExc]_vars

\* C26, the part that holds: once open_serial_link has been called on the
\* object, close_serial_link is idempotent and raises nothing.
C26_CloseIdempotentOnceOpened ==
    [][(CloseSerialLink /\ lkSerial # "unset") =>
          /\ lkExc' = NoExc
          /\ (lkSerial = "None" => lkSerial' = lkSerial /\ lkLog' = <<>>)
          /\ lkSerial' = "None"
          /\ link_close(lkSerial').serial = lkSerial'
          /\ link_close(lkSerial').exc = NoExc]_vars

(***************************************************************************)
(* C27: failures stay inside the handlers                                  *)
(***************************************************************************)
\* A handler of the mode is called (or, for the two-step handlers, goes on).
HandlerStep ==
    \/ ToggleRepl
    \/ TogglePlotter
    \/ ToggleFiles
    \/ IsConnecting
    \/ FlashBegin
    \/ FlashFinish
    \/ RunBegin
    \/ RunFinish

NoDevice == Env(FALSE, "ok", FALSE, FALSE)

\* A handler asks find_device for the board and there is none.
LookupFails ==
    /\ lookups' >= 1
    /\ \/ ToggleRepl /\ Commit(toggle_repl(Fresh, NoDevice))
       \/ TogglePlotter /\ Commit(toggle_plotter(Fresh, NoDevice))
       \/ ToggleFiles /\ Commit(toggle_files(Fresh, NoDevice))
       \/ IsConnecting /\ Commit(is_connecting(Fresh, NoDevice))

\* open_serial_link, the reboot handshake, a command batch or another step of
\* toggle_flash or run fails.
StepFails ==
    /\ FlashBegin \/ FlashFinish \/ RunBegin \/ RunFinish
    /\ \E i \in DOMAIN trace' : ~trace'[i].ok

InitializeReturned ==
    /\ RunBegin \/ RunFinish
    /\ pc' = "idle"
    /\ \E i \in DOMAIN trace' : trace'[i].step = "open_serial_link"

InstallReported == inPc = "done" /\ inShown = <<"UPIP Result">>

\* The k-th command is the last one run for its library name.
LastCommandFor(libs, k) == \A j \in (k + 1)..Len(libs) : libs[j] # libs[k]

\* C28: in the report of install a library is NG exactly when the output of
\* its upip command contains the bytes 'Error', in that case and wherever in
\* the output, and OK otherwise; the entry carries that output. A name typed
\* more than once has one entry, from the last command run for it.
C28_NgIffOutputHasError ==
    InstallReported =>
        LET libs == NonEmptyLines(inText) IN
        /\ \A k \in DOMAIN libs :
              LastCommandFor(libs, k) =>
                  \E i \in DOMAIN inReport :
                      /\ inReport[i].lib = libs[k]
                      /\ inReport[i].out = inReplies[k].out
                      /\ inReport[i].verdict = "NG" <=> Contains(inReplies[k].out, ErrorMarker)
                      /\ inReport[i].verdict \in {"NG", "OK"}
        /\ \A i \in DOMAIN inReport : \E k \in DOMAIN libs : inReport[i].lib = libs[k]

\* A report with a library NG although the board came back to a prompt, and
\* another OK whose output has the word in lower case.
C28_Witness ==
    /\ InstallReported
    /\ \E i, j \in DOMAIN inReport :
          /\ inReport[i].verdict = "NG"
          /\ inReport[i].out[Len(inReport[i].out)] = ">"
          /\ inReport[j].verdict = "OK"
          /\ inReport[j].out = <<"e", "r", "r", "o", "r">>

(***************************************************************************)
(* C29: the package dialog reaches its end state                           *)
(***************************************************************************)
\* setup has run, every removal and every pip process is over, and no
\* callback of the dialog is left to come.
AllWorkDone ==
    /\ pdPc = "setup"
    /\ pkg_dirs = <<>>
    /\ ~pdTimer
    /\ to_add = <<>>
    /\ process # "running"

EndState == ok_enabled /\ \E i \in DOMAIN text_area : text_area[i] = "FINISHED"

\* C29: for every to_remove and to_add given to setup and every interleaving
\* of the removal timer callbacks with the finished events of pip, once all
\* removals and all installs are over the dialog is in its end state:
\* FINISHED appended and the OK button enabled.
C29_DialogReachesEndState == AllWorkDone => EndState

\* C29, the part that holds: a dialog that only removed packages, or only
\* installed packages, ends in its end state.
C29_EndStateWhenOneKindOfWork ==
    (AllWorkDone /\ ((process = "None") # (text_area \in {<<>>, <<"FINISHED">>}))) => EndState

(***************************************************************************)
(* C31, C32: the poll timer and the buttons against the mode's state       *)
(***************************************************************************)
\* C31: whenever the REPL or the plotter is active the presence-poll timer
\* is running, after any sequence of toggle_repl, toggle_plotter,
\* toggle_files, run, on_data_flood and is_connecting.
C31_ActiveImpliesTimer == (Truthy(repl) \/ Truthy(plotter)) => timer

\* C32: whenever the REPL, the plotter and the filesystem pane are all
\* inactive, the files and the flash button are both enabled.
C32_IdleButtonsEnabled == Idle => (buttons["files_sb"] /\ buttons["flash_sb"])

\* C32, the part that holds: every handler other than on_data_flood keeps
\* the files and flash buttons enabled whenever it leaves the mode idle.
C32_IdleButtonsKeptWithoutFlood ==
    [][(~OnDataFlood /\ C32_IdleButtonsEnabled) => C32_IdleButtonsEnabled']_vars

(***************************************************************************)
(* C33: closing the filesystem pane                                        *)
(***************************************************************************)
\* toggle_files is called with the pane open and is not refused: remove_fs.
RemoveFs == ToggleFiles /\ fs # "None" /\ ~files_blocked(ModeState)

\* C33: when remove_fs returns, the file manager's serial session is closed
\* and its worker thread is stopped, so that the port is free for a REPL
\* started next.
C33_RemoveFsReleasesPort ==
    [][RemoveFs => (~FMSessionOpen' /\ ~WorkerThreadRunning')]_vars

\* C33, the part that holds: remove_fs drops the mode's references and
\* enables the run, repl, plotter and flash buttons again.
C33_RemoveFsDropsReferences ==
    [][RemoveFs =>
          /\ fs' = "None"
          /\ file_manager' = "None"
          /\ file_manager_thread' = "None"
          /\ \A k \in {"run", "repl", "plotter", "flash_sb"} : buttons'[k]]_vars

(***************************************************************************)
(* C34: run without an editor tab                                          *)
(***************************************************************************)
\* run has returned after finding no active tab.
RunFoundNoTab ==
    /\ op = "run"
    /\ pc = "idle"
    /\ \E i \in DOMAIN shown : shown[i] = "no_tabs"

\* C34: run with no active editor tab shows the 'cannot run without tabs'
\* message and does nothing to the device: no serial session opened, no
\* reboot, no write of lastSelected, and the REPL is not started.
C34_RunWithoutTabDoesNoIO ==
    RunFoundNoTab => (trace = <<>> /\ shown = <<"no_tabs">>)

\* C34, the part that holds: run with no tab never starts the REPL, and with
\* the REPL already active it does nothing to the device.
C34_RunWithoutTabKeepsRepl ==
    [][((RunBegin \/ RunFinish) /\ RunFoundNoTab') =>
          /\ repl' = repl
          /\ timer' = timer
          /\ (Truthy(repl) => trace' = <<>> /\ serial' = serial)]_vars

(***************************************************************************)
(* C35, C36: the ESP32 package widget                                      *)
(***************************************************************************)
\* scan, connect or install has run and returned.
WidgetSlotReturned == wfOp \in {"scan", "connect", "disconnect"} \/ inPc = "done"

\* C35: scan, connect and install each leave the widget's serial link not
\* open on every return path: no device found, port not opened, a command
\* batch failing, install aborting part-way through its list.
C35_WidgetLinkClosedOnReturn == WidgetSlotReturned => lkSerial # "open"

\* install has aborted at its second library, after the first was answered.
C35_Witness ==
    /\ inPc = "done"
    /\ inShown = <<"Wi-Fi Connect Error">>
    /\ inReplies[1] = SendCmdReturns(<<"O", "K">>)
    /\ inReplies[2] = SendCmdRaises
    /\ lkCalls = <<"open_serial_link", "close_serial_link">>
    /\ lkSerial = "None"

\* C36: the Connect button is checked exactly when the last successful
\* operation was a connect, that is when its label is 'Disconnect' and the
\* install group is enabled; so after a failed connect the button is
\* unchecked again and the next press connects.
C36_CheckedIffConnected ==
    wfChecked <=> (wfLabel = "Disconnect" /\ wfInstall)

\* C36, the part that holds: the label, the install group, the scan button
\* and the two fields change together, on a successful connect or disconnect.
C36_LabelMatchesInstallGroup ==
    /\ (wfLabel = "Disconnect") <=> wfInstall
    /\ wfInstall <=> ~wfScan
    /\ wfScan <=> wfFields

(***************************************************************************)
(* C37, C38: the end state and the pip processes of the package dialog     *)
(***************************************************************************)
Count(seq, x) == Cardinality({i \in DOMAIN seq : seq[i] = x})

EndStateEntered == ~ok_enabled /\ ok_enabled'

\* C37: PackageDialog enters its end state at most once and only when no
\* work remains: when the OK button becomes enabled, to_add is empty, no pip
\* process is running, pkg_dirs is empty, and the last pass of remove_package
\* (the cleanup of empty directories and of bin) has run or was never
\* scheduled.
C37_EndStateOnceWhenNoWorkRemains ==
    /\ [](Count(text_area, "FINISHED") <= 1)
    /\ [][EndStateEntered =>
             /\ to_add' = <<>>
             /\ process' # "running"
             /\ pkg_dirs' = <<>>
             /\ ~pdTimer']_vars

\* C37, the part that holds: the end state is entered at most once, with
\* to_add and pkg_dirs empty and no pip process running.
C37_EndStateOnceListsEmpty ==
    /\ [](Count(text_area, "FINISHED") <= 1)
    /\ [][EndStateEntered =>
             /\ to_add' = <<>>
             /\ process' # "running"
             /\ pkg_dirs' = <<>>]_vars

Reverse(seq) == [i \in DOMAIN seq |-> seq[Len(seq) + 1 - i]]

PipRunning == Len(pip_starts) - pip_exits

\* C38: PackageDialog runs at most one pip process at a time and starts pip
\* exactly once for each package of to_add: the packages started so far are
\* those taken from the end of the list, each once, the next one starts only
\* in the finished handler of the previous one, and when no process is
\* running after setup none is left in to_add.
C38_OnePipAtATimeEachPackageOnce ==
    /\ [](pdPc = "setup" =>
             /\ PipRunning \in {0, 1}
             /\ to_add \o Reverse(pip_starts) = to_add_given
             /\ (PipRunning = 0 => to_add = <<>>))
    /\ [][Len(pip_starts') > Len(pip_starts) =>
             \/ Setup /\ pip_starts = <<>>
             \/ ProcessFinished /\ PipRunning = 1]_vars

C38_Witness ==
    /\ pdPc = "setup"
    /\ Len(to_add_given) = MaxPackages
    /\ pip_starts = Reverse(to_add_given)
    /\ pip_exits = MaxPackages

(***************************************************************************)
(* Properties of the firmware flasher (SpecFlasher)                        *)
(***************************************************************************)

\* C39: the flasher runs at most one esptool process at a time and no
\* callback acts on a missing process: at every moment at most one of the
\* processes it created is alive, and read_process never ran with
\* self.process set to None.
C39_OneEsptoolAndNoMissingProcess ==
    /\ Cardinality(RunningProcs(Flasher)) <= 1
    /\ fwExc = "None"

\* The part of C39 that holds: read_process meets a missing process only
\* after esptool_error has run, and a second process is only ever started by
\* the button, never by a callback.
C39_MissingProcessOnlyAfterError ==
    /\ [](fwExc # "None" => Count(fwLog, "Error occured") > 0)
    /\ [][Cardinality(RunningProcs(Flasher)') > Cardinality(RunningProcs(Flasher))
            => UpdateFirmware]_vars

====
